---------------------------- MODULE Spec2Model ----------------------------
(***************************************************************************)
(* Model of the Sentiment-IQ gateway (backend/): the sentiment routes, the *)
(* health routes, SentimentService, the error handling middleware, the    *)
(* rate limiter of app.js and the process handlers of server.js; of the    *)
(* rule-based fallback scorer (the serverless function); and of the page   *)
(* in the browser: App's health check, SentimentAnalyzer and               *)
(* retryWithBackoff.                                                       *)
(*                                                                         *)
(* Strings whose content matters only through trim() and length are kept   *)
(* in run-length form: a text is [id, lead, core, trail] where lead and    *)
(* trail count the leading and trailing whitespace characters and core is  *)
(* the length of what lies between the first and the last non-whitespace   *)
(* character (0 for a text of whitespace only, whose whitespace is all     *)
(* counted in lead).  id names the content, so that two texts of the same  *)
(* shape can be told apart.                                                *)
(*                                                                         *)
(* JSON scalars are [type, val] with val the value's string form, which is *)
(* what express-validator's toString() hands to the standard validators.   *)
(*                                                                         *)
(* Error messages are sequences of tokens, so that String.includes() is a  *)
(* search for a contiguous run of tokens.                                  *)
(***************************************************************************)
EXTENDS Integers, Sequences, FiniteSets, TLC

VARIABLES
    stats,        \* SentimentService.stats
    inflight,     \* inference calls awaiting the Inference Endpoint's reply
    now,          \* Date.now()
    predictCalls, \* POSTs issued to the Inference Endpoint (/predict, /predict/batch)
    forwarded,    \* body of the most recent POST issued to the Inference Endpoint
    resp,         \* the most recent HTTP response sent by the gateway
    hits,         \* the rate limiter's store: requests counted for each client
    process,      \* the gateway's process: its environment and its exit
    connections,  \* the client connections of the HTTP server
    healthStatus, \* App: the health status the client stores
    retry,        \* one execution of retryWithBackoff
    analyzer      \* SentimentAnalyzer: the state of the component

\* the gateway's host process and the browser
host == <<process, connections>>
browser == <<healthStatus, retry, analyzer>>

vars == <<stats, inflight, now, predictCalls, forwarded, resp, hits, host, browser>>

---------------------------------------------------------------------------
(* Bounds of the exploration *)

MaxCalls == 2       \* inference calls dispatched in one behaviour
MaxInFlight == 2    \* inference calls awaiting a reply at the same time
MaxTime == 1        \* largest value of the clock
MaxLoadTime == 2    \* largest value of the clock when calls overlap
MaxWords == 4       \* words in a text given to the fallback scorer
MaxConnections == 3 \* client connections of the HTTP server
MaxCloses == 2      \* calls of server.close() in one behaviour
MaxRetries == 3     \* largest maxRetries given to retryWithBackoff

\* config.RATE_LIMIT_MAX_REQUESTS, set by the environment (100 by default):
\* the requests a client may make in one window
RATE_LIMIT_MAX_REQUESTS == 2

---------------------------------------------------------------------------
(* Program constants *)

MAX_TEXT_LENGTH == 5000
MAX_BATCH_SIZE == 100
ML_SERVICE_TIMEOUT == 30000     \* config.ML_SERVICE_TIMEOUT, in ms

ValidModels == {"random_forest", "logistic_regression", "naive_bayes"}
DefaultModel == "random_forest"

---------------------------------------------------------------------------
(* JSON scalars *)

JUndefined == [type |-> "undefined", val |-> ""]
JNull == [type |-> "null", val |-> ""]
JBool(b) == [type |-> "boolean", val |-> IF b THEN "true" ELSE "false"]
JStr(s) == [type |-> "string", val |-> s]

\* JavaScript truthiness of a scalar
Truthy(v) ==
    CASE v.type \in {"undefined", "null"} -> FALSE
      [] v.type = "boolean" -> v.val = "true"
      [] v.type = "string" -> v.val # ""
      [] OTHER -> TRUE

\* v !== false
NotStrictlyFalse(v) == ~(v.type = "boolean" /\ v.val = "false")

\* v || d
OrDefault(v, d) == IF Truthy(v) THEN v ELSE d

---------------------------------------------------------------------------
(* Texts *)

StrLen(t) == t.lead + t.core + t.trail

\* String.prototype.trim / validator.trim: a text of whitespace only becomes ""
trim(t) == [t EXCEPT !.lead = 0, !.trail = 0]

\* a non-empty string is truthy
TruthyText(t) == StrLen(t) > 0

---------------------------------------------------------------------------
(* express-validator: the standard validators, each on the string form *)

notEmpty(t) == StrLen(t) # 0
isLength(t, min, max) == StrLen(t) >= min /\ StrLen(t) <= max
matchesAny(t) == TRUE     \* /^[\s\S]*$/ matches every string
isBoolean(v) == v.val \in {"true", "false", "1", "0"}
isIn(v, S) == v.val \in S
isArrayOneMore(a, min, max) == Len(a) >= min /\ Len(a) <= max + 1
isArray(a, min, max) == Len(a) >= min /\ Len(a) <= max

\* an entry of validationResult(req).array(): the field (path[index] for an
\* element of an array, index 0 otherwise) and the validator's message
Err(path, msg) == [path |-> path[1], index |-> path[2], msg |-> msg]

\* one validator of a chain: its error when it fails, nothing when it passes
Check(ok, path, msg) == IF ok THEN <<>> ELSE <<Err(path, msg)>>


\* the errors of a list of independent chains or elements, in order
RECURSIVE Concat(_)
Concat(ss) == IF ss = <<>> THEN <<>> ELSE Head(ss) \o Concat(Tail(ss))

---------------------------------------------------------------------------
(* routes/sentiment: the validation chains.  A chain runs every validator  *)
(* (no .bail()), on the value its sanitizers left; .optional() skips the   *)
(* chain when the field is undefined.                                      *)

\* the chain without its sanitizer
TextChainUntrimmed(path, t) ==
        Check(notEmpty(t), path, "Text is required")
     \o Check(isLength(t, 1, MAX_TEXT_LENGTH), path,
              "Text must be between 1 and 5000 characters")
     \o Check(matchesAny(t), path, "Invalid characters in text")

\* body('text').trim().notEmpty().isLength({min: 1, max: 5000}).matches(...)
TextChain(path, t) ==
    LET s == trim(t) IN
        Check(notEmpty(s), path, "Text is required")
     \o Check(isLength(s, 1, MAX_TEXT_LENGTH), path,
              "Text must be between 1 and 5000 characters")
     \o Check(matchesAny(s), path, "Invalid characters in text")

\* body('options.includeConfidence').optional().isBoolean()
IncludeConfidenceChain(v) ==
    IF v.type = "undefined" THEN <<>>
    ELSE Check(isBoolean(v), <<"options.includeConfidence", 0>>,
               "includeConfidence must be a boolean")

\* body('options.model').optional().isIn([...])
ModelChain(v) ==
    IF v.type = "undefined" THEN <<>>
    ELSE Check(isIn(v, ValidModels), <<"options.model", 0>>, "Invalid model type")

\* the chains stopping at the first error
validateTextInputFirstOnly(req) ==
    LET all == TextChain(<<"text", 0>>, req.text)
            \o IncludeConfidenceChain(req.includeConfidence)
            \o ModelChain(req.model)
    IN IF all = <<>> THEN <<>> ELSE <<all[1]>>

\* validationResult(req).array() after validateTextInput
validateTextInput(req) ==
    TextChain(<<"text", 0>>, req.text)
 \o IncludeConfidenceChain(req.includeConfidence)
 \o ModelChain(req.model)

\* body('texts.*').trim().notEmpty().isLength({min: 1, max: 5000})
BatchItemChain(i, t) ==
    LET s == trim(t) IN
        Check(notEmpty(s), <<"texts", i>>, "Each text item is required")
     \o Check(isLength(s, 1, MAX_TEXT_LENGTH), <<"texts", i>>,
              "Each text must be between 1 and 5000 characters")

\* validationResult(req).array() after the validators of POST /batch
validateBatchInput(req) ==
    Check(isArray(req.texts, 1, MAX_BATCH_SIZE), <<"texts", 0>>,
          "texts must be an array with 1-100 items")
 \o Concat([i \in 1..Len(req.texts) |-> BatchItemChain(i, req.texts[i])])

\* req.body after the sanitizers ran
SanitizedText(req) == trim(req.text)
SanitizedTexts(req) == [i \in 1..Len(req.texts) |-> trim(req.texts[i])]

\* res.status(400).json({success: false, error: 'Validation failed', details})
ValidationFailed(route, req, errors) ==
    [route |-> route, status |-> 400, req |-> req,
     body |-> [success |-> FALSE, error |-> "Validation failed",
               details |-> errors]]

---------------------------------------------------------------------------
(* Error objects and their messages *)

\* String.prototype.includes on token sequences
includes(msg, needle) ==
    \E i \in 0..(Len(msg) - Len(needle)) :
        \A j \in 1..Len(needle) : msg[i + j] = needle[j]

MsgNotAvailable ==
    <<"ML", "service", "is", "not", "available", ".", "Please", "ensure",
      "the", "Python", "service", "is", "running", ".">>
MsgTimedOut ==
    <<"ML", "service", "request", "timed", "out", ".", "Please", "try",
      "again", ".">>
MsgServiceErrorPrefix == <<"ML", "service", "error", ":">>
MsgFailedAnalyze ==
    <<"Failed", "to", "analyze", "sentiment", ".", "Please", "try", "again", ".">>
MsgFailedCommunicate ==
    <<"Failed", "to", "communicate", "with", "ML", "service", ".", "Please",
      "try", "again", ".">>

\* new Error(message): no code, no statusCode
NewError(message) ==
    [name |-> "Error", code |-> "", statusCode |-> 0, message |-> message]

\* what axios rejects with: a transport error (no response) or a non-2xx reply
AxiosError(code, hasResponse, dataError, statusText) ==
    [name |-> "AxiosError", code |-> code, hasResponse |-> hasResponse,
     dataError |-> dataError, statusText |-> statusText]

\* a TypeError thrown while the reply is being transformed
TypeError ==
    [name |-> "TypeError", code |-> "", hasResponse |-> FALSE,
     dataError |-> <<>>, statusText |-> <<>>]

\* error.response.data?.error || error.response.statusText
UpstreamMessage(error) ==
    IF error.dataError # <<>> THEN error.dataError ELSE error.statusText

\* the catch block of analyzeSentiment
analyzeSentimentCatch(error) ==
    IF error.code = "ECONNREFUSED" THEN NewError(MsgNotAvailable)
    ELSE IF error.code = "ETIMEDOUT" THEN NewError(MsgTimedOut)
    ELSE IF error.hasResponse
         THEN NewError(MsgServiceErrorPrefix \o UpstreamMessage(error))
    ELSE NewError(MsgFailedAnalyze)

handleMLServiceError(error) ==
    IF error.code = "ECONNREFUSED" THEN NewError(MsgNotAvailable)
    ELSE IF error.code = "ETIMEDOUT" THEN NewError(MsgTimedOut)
    ELSE IF error.hasResponse
         THEN NewError(MsgServiceErrorPrefix \o UpstreamMessage(error))
    ELSE NewError(MsgFailedCommunicate)

\* middleware/errorHandler: the status, the category and the message sent
errorHandler(err) ==
    IF err.name = "ValidationError"
    THEN [statusCode |-> 400, error |-> "Validation Error", message |-> err.message]
    ELSE IF err.name = "CastError"
    THEN [statusCode |-> 400, error |-> "Invalid Data Format",
          message |-> <<"Invalid", "data", "provided">>]
    ELSE IF err.code = "ECONNREFUSED"
    THEN [statusCode |-> 503, error |-> "Service Unavailable",
          message |-> <<"External", "service", "is", "not", "available", ".",
                        "Please", "try", "again", "later", ".">>]
    ELSE IF err.code = "ETIMEDOUT"
    THEN [statusCode |-> 408, error |-> "Request Timeout",
          message |-> <<"Request", "timed", "out", ".", "Please", "try",
                        "again", ".">>]
    ELSE IF includes(err.message, <<"ML", "service">>)
    THEN [statusCode |-> 503, error |-> "ML Service Error", message |-> err.message]
    ELSE IF err.statusCode # 0
    THEN [statusCode |-> err.statusCode, error |-> err.name, message |-> err.message]
    ELSE [statusCode |-> 500, error |-> "Internal Server Error",
          message |-> <<"Something", "went", "wrong", ".", "Please", "try",
                        "again", ".">>]

\* utils/config: NODE_ENV: process.env.NODE_ENV || 'development'
config == [NODE_ENV |-> OrDefault(process.env.NODE_ENV, JStr("development"))]

\* an error body that carries the stack and the request whatever the mode
errorJsonVerbose(err, req) ==
    LET e == errorHandler(err) IN
    [success |-> FALSE, error |-> e.error, message |-> e.message,
     details |-> [stack |-> err.name, originalError |-> err.message],
     request |-> req]

\* middleware/errorHandler: the body sent by res.status(statusCode).json(error);
\* in development it also carries the stack (details) and the request
errorJson(err, req) ==
    LET e == errorHandler(err)
        error == [success |-> FALSE, error |-> e.error, message |-> e.message]
    IN IF config.NODE_ENV = JStr("development")
       THEN error @@ [details |-> [stack |-> err.name, originalError |-> err.message],
                      request |-> req]
       ELSE error

---------------------------------------------------------------------------
(* SentimentService: the reply of the Inference Endpoint and its transform. *)
(* Numbers are held in ten-thousandths (0.9346 is 9346).                    *)

Num(n) == [type |-> "number", n |-> n]
NotANumber == [type |-> "string", n |-> 0]      \* a non-empty string
NumUndefined == [type |-> "undefined", n |-> 0]

\* parseFloat(x.toFixed(3))
toFixed3(n) == ((n + 5) \div 10) * 10

NoText == [id |-> "", lead |-> 0, core |-> 0, trail |-> 0]
NoProbabilities == [present |-> FALSE, entries |-> <<>>]

getSentimentEmoji(sentiment) ==
    CASE sentiment = JStr("Positive") -> "smiling"
      [] sentiment = JStr("Negative") -> "disappointed"
      [] sentiment = JStr("Neutral") -> "neutral"
      [] OTHER -> "thinking"

\* (mlResponse.confidence || 0).toFixed(3) and probabilities[key].toFixed(3)
\* throw a TypeError on a value that is no number
transformThrows(mlResponse) ==
    \/ mlResponse.isNull
    \/ mlResponse.confidence.type = "string"
    \/ /\ mlResponse.probabilities.present
       /\ \E k \in 1..Len(mlResponse.probabilities.entries) :
              mlResponse.probabilities.entries[k].v.type # "number"

transformMLResponse(mlResponse, processingTime, originalText) ==
    [sentiment |-> mlResponse.sentiment,
     confidence |-> IF mlResponse.confidence.type = "number"
                    THEN toFixed3(mlResponse.confidence.n) ELSE 0,
     processingTime |-> processingTime,
     probabilities |->
        [present |-> mlResponse.probabilities.present,
         entries |-> [k \in 1..Len(mlResponse.probabilities.entries) |->
                        [key |-> mlResponse.probabilities.entries[k].key,
                         v |-> Num(toFixed3(mlResponse.probabilities.entries[k].v.n))]]],
     hasText |-> TruthyText(originalText),
     text |-> IF TruthyText(originalText) THEN originalText ELSE NoText,
     emoji |-> getSentimentEmoji(mlResponse.sentiment)]

\* Math.round(p / q) for p >= 0, q > 0
MathRound(p, q) == (2 * p + q) \div (2 * q)

updateStats(st, responseTime, success, t) ==
    LET counted == IF success
                   THEN [st EXCEPT !.successfulRequests = @ + 1]
                   ELSE [st EXCEPT !.failedRequests = @ + 1]
    IN [counted EXCEPT
          !.averageResponseTime =
              MathRound(st.averageResponseTime * (st.totalRequests - 1) + responseTime,
                        st.totalRequests),
          !.lastRequestTime = t]

Returned(st, value) == [stats |-> st, ok |-> TRUE, value |-> value]
Threw(st, error) == [stats |-> st, ok |-> FALSE, error |-> error]

\* analyzeSentiment from the reply of axios.post on: the statistics it leaves
\* and what it returns or throws
analyzeSentimentReply(st, call, outcome, t) ==
    LET processingTime == t - call.start IN
    IF outcome.kind = "ok"
    THEN LET st1 == updateStats(st, processingTime, TRUE, t) IN
         IF transformThrows(outcome.data)
         THEN Threw(updateStats(st1, processingTime, FALSE, t),
                    analyzeSentimentCatch(TypeError))
         ELSE Returned(st1, transformMLResponse(outcome.data,
                              [num |-> processingTime, den |-> 1], NoText))
    ELSE Threw(updateStats(st, processingTime, FALSE, t),
               analyzeSentimentCatch(outcome.error))

\* response.data.predictions.map(...) throws when there is no array to map or
\* a prediction has no fields to read
batchMapThrows(data, texts) ==
    \/ data.isNull
    \/ ~data.hasPredictions
    \/ \E i \in 1..Len(data.predictions) :
          \/ data.predictions[i].isNull
          \/ transformThrows(data.predictions[i])

\* the map pairing each prediction with the text at the mirrored position
batchMapMirrored(data, texts, processingTime) ==
    [i \in 1..Len(data.predictions) |->
        transformMLResponse(data.predictions[i],
                            [num |-> processingTime, den |-> Len(texts)],
                            IF i <= Len(texts) THEN texts[Len(texts) + 1 - i]
                            ELSE NoText)]

batchMap(data, texts, processingTime) ==
    [i \in 1..Len(data.predictions) |->
        transformMLResponse(data.predictions[i],
                            [num |-> processingTime, den |-> Len(texts)],
                            IF i <= Len(texts) THEN texts[i] ELSE NoText)]

\* analyzeBatchSentiment from the reply of axios.post on
analyzeBatchSentimentReply(st, call, outcome, t) ==
    LET processingTime == t - call.start IN
    IF outcome.kind = "ok"
    THEN LET st1 == updateStats(st, processingTime, TRUE, t) IN
         IF batchMapThrows(outcome.data, call.texts)
         THEN Threw(updateStats(st1, processingTime, FALSE, t),
                    handleMLServiceError(TypeError))
         ELSE Returned(st1, batchMap(outcome.data, call.texts, processingTime))
    ELSE Threw(updateStats(st, processingTime, FALSE, t),
               handleMLServiceError(outcome.error))

\* next(error): the response the error handling middleware sends.  Every
\* response to a dispatched call records the call and the reply it answers.
ErrorResponse(route, call, outcome, err) ==
    LET e == errorHandler(err) IN
    [route |-> route, status |-> e.statusCode, req |-> call.req, call |-> call,
     outcome |-> outcome, body |-> errorJson(err, call.req)]

\* res.json({success: true, data: result, ...}) of POST /analyze
AnalyzeOk(call, outcome, result) ==
    [route |-> "analyze", status |-> 200, req |-> call.req, call |-> call,
     outcome |-> outcome,
     body |-> [success |-> TRUE, data |-> result,
               processingTime |-> result.processingTime]]

\* res.json({success: true, data: results, count: results.length}) of POST /batch
BatchOk(call, outcome, results) ==
    [route |-> "batch", status |-> 200, req |-> call.req, call |-> call,
     outcome |-> outcome,
     body |-> [success |-> TRUE, data |-> results, count |-> Len(results)]]

---------------------------------------------------------------------------
(* The requests and the replies the exploration draws from *)

Text(id, lead, core, trail) == [id |-> id, lead |-> lead, core |-> core, trail |-> trail]

AnalyzeRequest(text, includeConfidence, model) ==
    [text |-> text, includeConfidence |-> includeConfidence, model |-> model]
BatchRequest(texts, includeConfidence, model) ==
    [texts |-> texts, includeConfidence |-> includeConfidence, model |-> model]

Labels == <<"Positive", "Negative", "Neutral">>

\* a well-formed prediction; position i of pattern p has its own label and confidence
Prediction(p, i) ==
    [isNull |-> FALSE,
     sentiment |-> JStr(Labels[((i + p) % 3) + 1]),
     confidence |-> Num(5004 + 1000 * ((i + p) % 3) + i),
     probabilities |-> NoProbabilities]

WithProbabilities(pred, v) ==
    [pred EXCEPT !.probabilities =
        [present |-> TRUE,
         entries |-> <<[key |-> "Positive", v |-> v],
                       [key |-> "Negative", v |-> Num(1234)],
                       [key |-> "Neutral", v |-> Num(0)]>>]]

NullPayload ==
    [isNull |-> TRUE, sentiment |-> JUndefined, confidence |-> NumUndefined,
     probabilities |-> NoProbabilities]
EmptyPayload == [NullPayload EXCEPT !.isNull = FALSE]

\* bodies of 2xx replies to POST /predict
PredictPayloads ==
    { Prediction(0, 0), Prediction(1, 0),
      WithProbabilities(Prediction(2, 0), Num(8766)),
      WithProbabilities(Prediction(0, 0), NotANumber),
      [Prediction(0, 0) EXCEPT !.confidence = NotANumber],
      [Prediction(0, 0) EXCEPT !.sentiment = JStr("Mixed")],
      [Prediction(0, 0) EXCEPT !.confidence = Num(15000)],
      EmptyPayload, NullPayload }

\* what axios.post rejects with
UpstreamErrors ==
    { AxiosError("ECONNREFUSED", FALSE, <<>>, <<>>),
      AxiosError("ETIMEDOUT", FALSE, <<>>, <<>>),
      AxiosError("ECONNABORTED", FALSE, <<>>, <<>>),
      AxiosError("ECONNRESET", FALSE, <<>>, <<>>),
      AxiosError("EHOSTUNREACH", FALSE, <<>>, <<>>),
      AxiosError("ERR_BAD_RESPONSE", TRUE, <<"Model", "not", "loaded">>,
                 <<"Internal", "Server", "Error">>),
      AxiosError("ERR_BAD_REQUEST", TRUE, <<>>, <<"Bad", "Request">>) }

Ok(data) == [kind |-> "ok", data |-> data]
Failed(error) == [kind |-> "error", error |-> error]

PredictOutcomes == {Ok(d) : d \in PredictPayloads} \cup {Failed(e) : e \in UpstreamErrors}

BatchData(predictions) ==
    [isNull |-> FALSE, hasPredictions |-> TRUE, predictions |-> predictions]

\* bodies of 2xx replies to POST /predict/batch for n texts: n predictions, one
\* fewer, one more, and bodies with nothing to map
BatchPayloads(n) ==
    { BatchData([i \in 1..m |-> Prediction(p, i)]) :
          m \in {k \in {n - 1, n, n + 1} : k >= 0}, p \in 0..1 }
    \cup { BatchData([i \in 1..n |-> IF i = n THEN NullPayload ELSE Prediction(0, i)]),
           BatchData([i \in 1..n |->
                        IF i = 1 THEN [Prediction(0, i) EXCEPT !.confidence = NotANumber]
                        ELSE Prediction(0, i)]),
           [isNull |-> FALSE, hasPredictions |-> FALSE, predictions |-> <<>>],
           [isNull |-> TRUE, hasPredictions |-> FALSE, predictions |-> <<>>] }

BatchOutcomes(n) ==
    {Ok(d) : d \in BatchPayloads(n)} \cup {Failed(e) : e \in UpstreamErrors}

\* replies to the health probe: a 2xx, or a rejection of axios.get
ProbeOutcomes == {"2xx", "ECONNREFUSED", "ETIMEDOUT", "non-2xx"}

---------------------------------------------------------------------------
(* The gateway *)

NoForward == [url |-> "none"]
NoResponse == [route |-> "none", status |-> 0]
NoRequest == [text |-> NoText]

\* the clients, by the address the rate limiter keys its counts on
Clients == {"10.0.0.1", "10.0.0.2"}

\* retryWithBackoff has not been called
NotCalled ==
    [state |-> "idle", maxRetries |-> 0, baseDelay |-> 0, i |-> 0, calls |-> 0,
     delays |-> <<>>, lastError |-> JUndefined, settled |-> JUndefined]

\* SentimentAnalyzer as mounted: useState(''), useState(false), useState(null)
Mounted ==
    [text |-> NoText, isAnalyzing |-> FALSE, result |-> JNull, error |-> JNull,
     awaiting |-> FALSE]

\* the state after construction of a gateway started with NODE_ENV = nodeEnv,
\* and of a browser that has loaded the page
Boot(nodeEnv) ==
    /\ stats = [totalRequests |-> 0, successfulRequests |-> 0, failedRequests |-> 0,
                averageResponseTime |-> 0, lastRequestTime |-> -1]
    /\ inflight = {}
    /\ now = 0
    /\ predictCalls = 0
    /\ forwarded = NoForward
    /\ resp = NoResponse
    /\ hits = [ip \in Clients |-> 0]
    /\ process = [env |-> [NODE_ENV |-> nodeEnv], logged |-> {},
                  closeCallbacks |-> <<>>, exited |-> FALSE, exitCode |-> 0]
    /\ connections = [c \in 1..MaxConnections |-> "closed"]
    /\ healthStatus = [status |-> "null", api |-> "null", answer |-> NoResponse]
    /\ retry = NotCalled
    /\ analyzer = Mounted

Init == Boot(JStr("production"))

\* a request that makes one call for each of its texts
DispatchPerText(route, url, req, texts, body, timeout) ==
    /\ stats' = [stats EXCEPT !.totalRequests = @ + 1]
    /\ predictCalls' = predictCalls + Len(texts)
    /\ forwarded' = [url |-> url, body |-> body, req |-> req]
    /\ inflight' = inflight \cup
          {[id |-> predictCalls + 1, route |-> route, req |-> req,
            texts |-> texts, timeout |-> timeout, start |-> now]}
    /\ UNCHANGED <<now, resp, host, browser>>

\* a call given no timeout: axios waits for the reply without limit
DispatchNoTimeout(route, url, req, texts, body, timeout) ==
    /\ stats' = [stats EXCEPT !.totalRequests = @ + 1]
    /\ predictCalls' = predictCalls + 1
    /\ forwarded' = [url |-> url, body |-> body, req |-> req]
    /\ inflight' = inflight \cup
          {[id |-> predictCalls + 1, route |-> route, req |-> req,
            texts |-> texts, timeout |-> 0, start |-> now]}
    /\ UNCHANGED <<now, resp, host, browser>>

\* this.stats.totalRequests++; axios.post(url, body, {timeout}): the call
\* leaves and the handler awaits its reply
Dispatch(route, url, req, texts, body, timeout) ==
    /\ stats' = [stats EXCEPT !.totalRequests = @ + 1]
    /\ predictCalls' = predictCalls + 1
    /\ forwarded' = [url |-> url, body |-> body, req |-> req]
    /\ inflight' = inflight \cup
          {[id |-> predictCalls + 1, route |-> route, req |-> req,
            texts |-> texts, timeout |-> timeout, start |-> now]}
    /\ UNCHANGED <<now, resp, host, browser>>

\* a rejection that is counted as a failed request
RejectCounted(route, req, errors) ==
    /\ resp' = ValidationFailed(route, req, errors)
    /\ stats' = [stats EXCEPT !.totalRequests = @ + 1, !.failedRequests = @ + 1]
    /\ UNCHANGED <<inflight, now, predictCalls, forwarded, host, browser>>

\* if (!errors.isEmpty()) return res.status(400).json(...)
Reject(route, req, errors) ==
    /\ resp' = ValidationFailed(route, req, errors)
    /\ UNCHANGED <<stats, inflight, now, predictCalls, forwarded, host, browser>>

\* POST /api/sentiment/analyze, up to the await of axios.post
PostAnalyze(req) ==
    LET errors == validateTextInput(req) IN
    IF errors # <<>>
    THEN Reject("analyze", req, errors)
    ELSE LET text == SanitizedText(req)
             analysisOptions ==
                 [includeConfidence |-> JBool(NotStrictlyFalse(req.includeConfidence)),
                  model |-> OrDefault(req.model, JStr(DefaultModel))]
         IN Dispatch("analyze", "/predict", req, <<text>>,
                [text |-> text,
                 include_probabilities |->
                     NotStrictlyFalse(analysisOptions.includeConfidence),
                 model |-> OrDefault(analysisOptions.model, JStr(DefaultModel))],
                ML_SERVICE_TIMEOUT)

\* POST /api/sentiment/batch, up to the await of axios.post
PostBatch(req) ==
    LET errors == validateBatchInput(req) IN
    IF errors # <<>>
    THEN Reject("batch", req, errors)
    ELSE LET texts == SanitizedTexts(req) IN
         Dispatch("batch", "/predict/batch", req, texts,
             [texts |-> texts,
              include_probabilities |-> NotStrictlyFalse(req.includeConfidence),
              model |-> OrDefault(req.model, JStr(DefaultModel))],
             ML_SERVICE_TIMEOUT * 2)

\* the reply to a POST /predict arrives: the rest of analyzeSentiment and of
\* the route handler
AnalyzeReply(call, outcome) ==
    /\ call \in inflight
    /\ call.route = "analyze"
    /\ LET r == analyzeSentimentReply(stats, call, outcome, now) IN
       /\ stats' = r.stats
       /\ resp' = IF r.ok THEN AnalyzeOk(call, outcome, r.value)
                  ELSE ErrorResponse("analyze", call, outcome, r.error)
    /\ inflight' = inflight \ {call}
    /\ UNCHANGED <<now, predictCalls, forwarded, hits, host, browser>>

\* the reply to a POST /predict/batch arrives
BatchReply(call, outcome) ==
    /\ call \in inflight
    /\ call.route = "batch"
    /\ LET r == analyzeBatchSentimentReply(stats, call, outcome, now) IN
       /\ stats' = r.stats
       /\ resp' = IF r.ok THEN BatchOk(call, outcome, r.value)
                  ELSE ErrorResponse("batch", call, outcome, r.error)
    /\ inflight' = inflight \ {call}
    /\ UNCHANGED <<now, predictCalls, forwarded, hits, host, browser>>

\* a probe whose failure is not noticed
checkMLServiceHealthBlind(outcome) == "healthy"

\* checkMLServiceHealth(): 'healthy' on a 2xx, 'unhealthy' when axios.get rejects
checkMLServiceHealth(outcome) == IF outcome = "2xx" THEN "healthy" ELSE "unhealthy"

\* GET /health: the response to the outcome of its probe
HealthResponse(outcome) ==
    LET services == [api |-> "healthy", mlService |-> checkMLServiceHealth(outcome)]
        allServicesHealthy ==
            \A s \in {services.api, services.mlService} : s = "healthy"
        status == IF allServicesHealthy THEN "healthy" ELSE "degraded"
    IN [route |-> "health",
        status |-> IF status = "healthy" THEN 200 ELSE 503,
        probe |-> outcome,
        body |-> [status |-> status, services |-> services]]

\* GET /health, from the request to the response
GetHealth(outcome) ==
    /\ resp' = HealthResponse(outcome)
    /\ UNCHANGED <<stats, inflight, now, predictCalls, forwarded, host, browser>>

\* a readiness probe that reports ready whatever the Inference Endpoint does
ReadyResponseAlways(outcome) ==
    [route |-> "ready", status |-> 200, probe |-> outcome,
     body |-> [status |-> "ready", reason |-> ""]]

\* GET /health/ready: the response to the outcome of its probe
ReadyResponse(outcome) ==
    LET mlServiceReady == [status |-> checkMLServiceHealth(outcome)] IN
    IF mlServiceReady.status = "healthy"
    THEN [route |-> "ready", status |-> 200, probe |-> outcome,
          body |-> [status |-> "ready", reason |-> ""]]
    ELSE [route |-> "ready", status |-> 503, probe |-> outcome,
          body |-> [status |-> "not ready", reason |-> "ML service not available"]]

\* checkMLServiceHealth(true): {status: 'healthy', responseTime, ...response.data}
\* on a 2xx, where a status field of the reply's body replaces 'healthy'
checkMLServiceHealthDetailed(outcome, dataStatus) ==
    IF outcome = "2xx"
    THEN IF dataStatus = "none" THEN "healthy" ELSE dataStatus
    ELSE "unhealthy"

\* GET /health/detailed: the response to the outcome of its probe
DetailedResponse(outcome, dataStatus) ==
    LET mlService == [status |-> checkMLServiceHealthDetailed(outcome, dataStatus)]
        servicesHealthy == mlService.status = "healthy"
        status == IF servicesHealthy THEN "healthy" ELSE "degraded"
    IN [route |-> "detailed",
        status |-> IF status = "healthy" THEN 200 ELSE 503,
        probe |-> outcome,
        body |-> [status |-> status,
                  services |-> [api |-> "healthy", mlService |-> mlService.status]]]

\* what axios.get rejects with, for each outcome of a GET that is no 2xx
ProbeError(outcome) ==
    IF outcome = "non-2xx"
    THEN AxiosError("ERR_BAD_RESPONSE", TRUE, <<>>, <<"Internal", "Server", "Error">>)
    ELSE AxiosError(outcome, FALSE, <<>>, <<>>)

\* GET /api/sentiment/models: the reply's body, or next(handleMLServiceError(error))
ModelsResponse(outcome) ==
    IF outcome = "2xx"
    THEN [route |-> "models", status |-> 200, probe |-> outcome,
          body |-> [success |-> TRUE, error |-> "", message |-> <<>>]]
    ELSE LET err == handleMLServiceError(ProbeError(outcome)) IN
         [route |-> "models", status |-> errorHandler(err).statusCode,
          probe |-> outcome, body |-> errorJson(err, NoRequest)]

\* the routes whose handler awaits one GET to the Inference Endpoint
ProbeRoutes == {"health", "ready", "detailed", "models"}

\* the 5000 ms that axios.get is given
PROBE_TIMEOUT == 5000

\* a GET route up to its await: the GET to the Inference Endpoint leaves
Probe(route) ==
    /\ \A call \in inflight : call.route # route
    /\ inflight' = inflight \cup
          {[id |-> 0, route |-> route, req |-> NoRequest, texts |-> <<>>,
            timeout |-> PROBE_TIMEOUT, start |-> now]}
    /\ UNCHANGED <<stats, now, predictCalls, forwarded, resp, host, browser>>

\* the GET settles (a reply, a rejection, the expiry of its timeout): the
\* rest of the handler
ProbeReply(call, outcome, dataStatus) ==
    /\ call \in inflight
    /\ call.route \in ProbeRoutes
    /\ resp' = CASE call.route = "health" -> HealthResponse(outcome)
                 [] call.route = "ready" -> ReadyResponse(outcome)
                 [] call.route = "detailed" -> DetailedResponse(outcome, dataStatus)
                 [] OTHER -> ModelsResponse(outcome)
    /\ inflight' = inflight \ {call}
    /\ UNCHANGED <<stats, now, predictCalls, forwarded, hits, host, browser>>

\* GET /health/live
GetLive ==
    /\ resp' = [route |-> "live", status |-> 200, body |-> [status |-> "alive"]]
    /\ UNCHANGED <<stats, inflight, now, predictCalls, forwarded, host, browser>>

\* getServiceStats(): a copy of the statistics
getServiceStats(st) == st

\* a snapshot that also counts itself as a request
GetStatsCounted ==
    /\ resp' = [route |-> "stats", status |-> 200,
                body |-> [success |-> TRUE, data |-> getServiceStats(stats)]]
    /\ stats' = [stats EXCEPT !.totalRequests = @ + 1]
    /\ UNCHANGED <<inflight, now, predictCalls, forwarded, host, browser>>

\* GET /api/sentiment/stats
GetStats ==
    /\ resp' = [route |-> "stats", status |-> 200,
                body |-> [success |-> TRUE, data |-> getServiceStats(stats)]]
    /\ UNCHANGED <<stats, inflight, now, predictCalls, forwarded, host, browser>>

\* time passes
Tick ==
    /\ now < MaxTime
    /\ now' = now + 1
    /\ UNCHANGED <<stats, inflight, predictCalls, forwarded, resp, hits, host, browser>>

---------------------------------------------------------------------------
(* The application: the rate limiter in front of the routes under /api/ *)

\* a request of a client whose count the exploration leaves out: below its
\* limit, as every client is while fewer than RATE_LIMIT_MAX_REQUESTS arrive
Unthrottled == UNCHANGED hits

\* res.status(429).json(message)
TooManyRequests(path) ==
    [route |-> "limiter", status |-> 429, path |-> path,
     body |-> [error |-> "Too many requests from this IP, please try again later.",
               retryAfter |-> "15 minutes"]]

\* a limiter that counts the request and lets it through whatever the count
limiterLenient(ip, path, next) ==
    /\ hits' = [hits EXCEPT ![ip] = @ + 1]
    /\ next

\* rateLimit({windowMs, max}): the request is counted for its client; past
\* max it is answered 429, otherwise next() runs the rest of the chain
limiter(ip, path, next) ==
    /\ hits' = [hits EXCEPT ![ip] = @ + 1]
    /\ IF hits[ip] + 1 > RATE_LIMIT_MAX_REQUESTS
       THEN /\ resp' = TooManyRequests(path)
            /\ UNCHANGED <<stats, inflight, now, predictCalls, forwarded, host, browser>>
       ELSE next

\* app.use("/api/", limiter), then app.use("/health", healthRoutes) and
\* app.use("/api/sentiment", sentimentRoutes): the chain a request of the
\* client at ip for the path runs through
app(ip, path, handler) ==
    IF path[1] = "api"
    THEN limiter(ip, path, handler)
    ELSE handler /\ UNCHANGED hits

\* the path each route answering with one GET to the Inference Endpoint is mounted on
ProbePath(route) ==
    IF route = "models" THEN <<"api", "sentiment", "models">>
    ELSE IF route = "health" THEN <<"health">>
    ELSE <<"health", route>>

\* windowMs has passed for the client: its count starts again
WindowEnds(ip) ==
    /\ hits[ip] > 0
    /\ hits' = [hits EXCEPT ![ip] = 0]
    /\ UNCHANGED <<stats, inflight, now, predictCalls, forwarded, resp, host, browser>>

---------------------------------------------------------------------------
(* The process: server.js *)

\* a client opens a connection to the listening server, sends a request on
\* an idle connection, or closes its end
Client(c) ==
    /\ ~process.exited
    /\ \/ /\ connections[c] = "closed"
          /\ process.closeCallbacks = <<>>
          /\ connections' = [connections EXCEPT ![c] = "idle"]
       \/ /\ connections[c] = "idle"
          /\ connections' = [connections EXCEPT ![c] = "busy"]
       \/ /\ connections[c] # "closed"
          /\ connections' = [connections EXCEPT ![c] = "closed"]
    /\ UNCHANGED <<stats, inflight, now, predictCalls, forwarded, resp, hits,
                   process, browser>>

\* the server answers the request of a connection, which is kept alive, or
\* server.keepAliveTimeout passes on an idle connection and the server ends it
Socket(c) ==
    /\ ~process.exited
    /\ \/ /\ connections[c] = "busy"
          /\ connections' = [connections EXCEPT ![c] = "idle"]
       \/ /\ connections[c] = "idle"
          /\ connections' = [connections EXCEPT ![c] = "closed"]
    /\ UNCHANGED <<stats, inflight, now, predictCalls, forwarded, resp, hits,
                   process, browser>>

\* server.close(() => process.exit(code)): the server stops listening and
\* the callback waits for the 'close' event; whether the idle connections
\* are ended at once depends on the version of Node
serverClose(logged, code) ==
    /\ ~process.exited
    /\ Len(process.closeCallbacks) < MaxCloses
    /\ process' = [process EXCEPT !.logged = @ \cup logged,
                                  !.closeCallbacks = Append(@, code)]
    /\ connections' \in
          { connections,
            [c \in 1..MaxConnections |->
                IF connections[c] = "idle" THEN "closed" ELSE connections[c]] }
    /\ UNCHANGED <<stats, inflight, now, predictCalls, forwarded, resp, hits, browser>>

\* process.on('SIGTERM' | 'SIGINT')
gracefulShutdown == serverClose({}, 0)

\* process.on('unhandledRejection')
unhandledRejection == serverClose({"Unhandled Promise Rejection"}, 1)

\* process.on('uncaughtException'): console.error, process.exit(1)
uncaughtException ==
    /\ ~process.exited
    /\ process' = [process EXCEPT !.logged = @ \cup {"Uncaught Exception"},
                                  !.exited = TRUE, !.exitCode = 1]
    /\ connections' = [c \in 1..MaxConnections |-> "closed"]
    /\ UNCHANGED <<stats, inflight, now, predictCalls, forwarded, resp, hits, browser>>

\* the server emits 'close' once it has stopped listening and its last
\* connection has ended: the callbacks run in the order they were given,
\* and the first one exits
emitClose ==
    /\ ~process.exited
    /\ process.closeCallbacks # <<>>
    /\ \A c \in 1..MaxConnections : connections[c] = "closed"
    /\ process' = [process EXCEPT !.exited = TRUE,
                                  !.exitCode = Head(process.closeCallbacks)]
    /\ UNCHANGED <<stats, inflight, now, predictCalls, forwarded, resp, hits,
                   connections, browser>>

---------------------------------------------------------------------------
(* The browser: App, SentimentAnalyzer and retryWithBackoff *)

\* App renders SentimentAnalyzer unless healthStatus?.status === 'unhealthy'
Shown(status) == status.status # "unhealthy"

\* checkHealthStatus, once GET /health has settled: axios resolves with the
\* reply's body on a 2xx status and rejects on any other status and when no
\* response came; the catch block stores 'unhealthy'.  SentimentAnalyzer is
\* unmounted with the screen that replaces it and starts afresh when shown again
checkHealthStatus(answer) ==
    LET status == IF answer.status \in 200..299
                  THEN [status |-> answer.body.status,
                        api |-> answer.body.services.api, answer |-> answer]
                  ELSE [status |-> "unhealthy", api |-> "unhealthy",
                        answer |-> answer]
    IN /\ healthStatus' = status
       /\ analyzer' = IF Shown(status) THEN analyzer ELSE Mounted
       /\ UNCHANGED <<stats, inflight, now, predictCalls, forwarded, resp, hits,
                      host, retry>>

\* services/api validateText, and validation.errors.join(', ')
validateText(text) ==
    LET empty == ~TruthyText(text) \/ StrLen(trim(text)) = 0
        long == StrLen(text) > MAX_TEXT_LENGTH
    IN [isValid |-> ~empty /\ ~long,
        joined |-> IF empty /\ long
                   THEN "Text cannot be empty, Text cannot exceed 5000 characters"
                   ELSE IF empty THEN "Text cannot be empty"
                   ELSE IF long THEN "Text cannot exceed 5000 characters"
                   ELSE ""]

\* a change of the text that leaves the previous result and error in place
handleTextChangeKeep(newText) ==
    /\ Shown(healthStatus)
    /\ ~analyzer.isAnalyzing
    /\ analyzer' = [analyzer EXCEPT !.text = newText]
    /\ UNCHANGED <<stats, inflight, now, predictCalls, forwarded, resp, hits,
                   host, healthStatus, retry>>

\* handleTextChange, called by the textarea (disabled while isLoading)
handleTextChange(newText) ==
    /\ Shown(healthStatus)
    /\ ~analyzer.isAnalyzing
    /\ analyzer' = IF Truthy(analyzer.result) \/ Truthy(analyzer.error)
                   THEN [analyzer EXCEPT !.text = newText, !.result = JNull,
                                         !.error = JNull]
                   ELSE [analyzer EXCEPT !.text = newText]
    /\ UNCHANGED <<stats, inflight, now, predictCalls, forwarded, resp, hits,
                   host, healthStatus, retry>>

\* handleAnalyze up to its await, called by the button (disabled while
\* isAnalyzing || !text.trim()) and by Ctrl+Enter (if !isLoading && value.trim())
handleAnalyze ==
    /\ Shown(healthStatus)
    /\ ~analyzer.isAnalyzing
    /\ TruthyText(trim(analyzer.text))
    /\ analyzer' = IF ~validateText(analyzer.text).isValid
                   THEN [analyzer EXCEPT
                            !.error = JStr(validateText(analyzer.text).joined)]
                   ELSE [analyzer EXCEPT !.isAnalyzing = TRUE, !.error = JNull,
                                         !.result = JNull, !.awaiting = TRUE]
    /\ UNCHANGED <<stats, inflight, now, predictCalls, forwarded, resp, hits,
                   host, healthStatus, retry>>

\* what apiService.analyzeSentiment settles with: a body, or an Error thrown
\* by the response interceptor
Fulfilled(success, data, error) ==
    [threw |-> FALSE, success |-> success, data |-> data, error |-> error]
Thrown(message) ==
    [threw |-> TRUE, success |-> FALSE, data |-> JNull, error |-> JStr(message)]

\* handleAnalyze from its await on: the result or the error is set, and the
\* finally block clears isAnalyzing; React applies the three updates together
analyzeSettles(response) ==
    /\ Shown(healthStatus)
    /\ analyzer.awaiting
    /\ analyzer' =
          IF response.threw
          THEN [analyzer EXCEPT !.error = response.error, !.isAnalyzing = FALSE,
                                !.awaiting = FALSE]
          ELSE IF response.success /\ Truthy(response.data)
          THEN [analyzer EXCEPT !.result = response.data, !.error = JNull,
                                !.isAnalyzing = FALSE, !.awaiting = FALSE]
          ELSE [analyzer EXCEPT
                   !.error = OrDefault(response.error, JStr("Analysis failed")),
                   !.isAnalyzing = FALSE, !.awaiting = FALSE]
    /\ UNCHANGED <<stats, inflight, now, predictCalls, forwarded, resp, hits,
                   host, healthStatus, retry>>

\* handleClear, called by the clear button (rendered if text, disabled while
\* isAnalyzing)
handleClear ==
    /\ Shown(healthStatus)
    /\ TruthyText(analyzer.text)
    /\ ~analyzer.isAnalyzing
    /\ analyzer' = [analyzer EXCEPT !.text = NoText, !.result = JNull,
                                    !.error = JNull]
    /\ UNCHANGED <<stats, inflight, now, predictCalls, forwarded, resp, hits,
                   host, healthStatus, retry>>

\* handleTryExample, called by an example button (rendered if
\* !text && !result && !isAnalyzing)
handleTryExample(exampleText) ==
    /\ Shown(healthStatus)
    /\ ~TruthyText(analyzer.text)
    /\ ~Truthy(analyzer.result)
    /\ ~analyzer.isAnalyzing
    /\ analyzer' = [analyzer EXCEPT !.text = exampleText, !.result = JNull,
                                    !.error = JNull]
    /\ UNCHANGED <<stats, inflight, now, predictCalls, forwarded, resp, hits,
                   host, healthStatus, retry>>

\* retryWithBackoff(fn, maxRetries, baseDelay) up to its first await: fn is
\* called if the loop is entered, and throw lastError! follows it otherwise
retryWithBackoff(maxRetries, baseDelay) ==
    /\ retry.state = "idle"
    /\ retry' = IF 0 < maxRetries
                THEN [retry EXCEPT !.state = "calling", !.maxRetries = maxRetries,
                                   !.baseDelay = baseDelay, !.calls = 1]
                ELSE [retry EXCEPT !.state = "rejected", !.maxRetries = maxRetries,
                                   !.baseDelay = baseDelay,
                                   !.settled = retry.lastError]
    /\ UNCHANGED <<stats, inflight, now, predictCalls, forwarded, resp, hits,
                   host, healthStatus, analyzer>>

\* await fn() settling where the delay is started after every failed attempt
fnSettlesAlwaysWait(ok, value) ==
    /\ retry.state = "calling"
    /\ retry' = IF ok
                THEN [retry EXCEPT !.state = "resolved", !.settled = value]
                ELSE [retry EXCEPT !.state = "waiting", !.lastError = value,
                                   !.delays = Append(@, retry.baseDelay * 2^retry.i)]
    /\ UNCHANGED <<stats, inflight, now, predictCalls, forwarded, resp, hits,
                   host, healthStatus, analyzer>>

\* await fn() settles: return its value, or keep the error and either throw
\* it (the last attempt) or start the timer of baseDelay * 2^i
fnSettles(ok, value) ==
    /\ retry.state = "calling"
    /\ retry' = IF ok
                THEN [retry EXCEPT !.state = "resolved", !.settled = value]
                ELSE IF retry.i = retry.maxRetries - 1
                THEN [retry EXCEPT !.state = "rejected", !.lastError = value,
                                   !.settled = value]
                ELSE [retry EXCEPT !.state = "waiting", !.lastError = value,
                                   !.delays = Append(@, retry.baseDelay * 2^retry.i)]
    /\ UNCHANGED <<stats, inflight, now, predictCalls, forwarded, resp, hits,
                   host, healthStatus, analyzer>>

\* the timer fires: i++, and fn is called again if i < maxRetries
timerFires ==
    /\ retry.state = "waiting"
    /\ retry' = IF retry.i + 1 < retry.maxRetries
                THEN [retry EXCEPT !.state = "calling", !.i = @ + 1, !.calls = @ + 1]
                ELSE [retry EXCEPT !.state = "rejected", !.i = @ + 1,
                                   !.settled = retry.lastError]
    /\ UNCHANGED <<stats, inflight, now, predictCalls, forwarded, resp, hits,
                   host, healthStatus, analyzer>>

---------------------------------------------------------------------------
(* Requests and replies of the explorations *)

ShortText == Text("a", 1, 1, 0)
LongText == Text("b", 0, MAX_TEXT_LENGTH, 1)
BlankText == Text("a", 1, 0, 0)

AnalyzeRequests ==
    { AnalyzeRequest(t, ic, m) :
        t \in {ShortText, LongText, BlankText},
        ic \in {JUndefined, JStr("yes")},
        m \in {JUndefined, JStr("gpt")} }

BatchRequests ==
    { BatchRequest(ts, JUndefined, JUndefined) :
        ts \in { <<>>, <<ShortText>>, <<ShortText, LongText>>,
                 <<LongText, BlankText>> } }

\* one reply of each kind the service tells apart: a body it can transform,
\* a body it cannot, and the rejections
SomePredictOutcomes ==
    { Ok(Prediction(0, 0)), Ok(NullPayload),
      Failed(AxiosError("ECONNREFUSED", FALSE, <<>>, <<>>)),
      Failed(AxiosError("ECONNABORTED", FALSE, <<>>, <<>>)) }

SomeBatchOutcomes(n) ==
    { Ok(BatchData([i \in 1..n |-> Prediction(0, i)])),
      Ok([isNull |-> FALSE, hasPredictions |-> FALSE, predictions |-> <<>>]),
      Failed(AxiosError("ETIMEDOUT", FALSE, <<>>, <<>>)),
      Failed(AxiosError("ERR_BAD_RESPONSE", TRUE, <<"Model", "not", "loaded">>,
                        <<"Internal", "Server", "Error">>)) }

---------------------------------------------------------------------------
(* The gateway under concurrent requests: up to MaxInFlight inference calls *)
(* await their replies while further requests arrive                        *)

CanDispatch == predictCalls < MaxCalls /\ Cardinality(inflight) < MaxInFlight

Next ==
    \/ \E req \in AnalyzeRequests : CanDispatch /\ PostAnalyze(req) /\ Unthrottled
    \/ \E req \in BatchRequests : CanDispatch /\ PostBatch(req) /\ Unthrottled
    \/ \E call \in inflight : \E outcome \in SomePredictOutcomes :
           AnalyzeReply(call, outcome)
    \/ \E call \in inflight : \E outcome \in SomeBatchOutcomes(Len(call.texts)) :
           BatchReply(call, outcome)
    \/ \E outcome \in ProbeOutcomes : GetHealth(outcome) /\ Unthrottled
    \/ Tick

Spec == Init /\ [][Next]_vars

---------------------------------------------------------------------------
(* The gateway serving one request at a time, under every reply *)

CanDispatchSeq == predictCalls < MaxCalls /\ inflight = {}

NextSeq ==
    \/ \E req \in AnalyzeRequests : CanDispatchSeq /\ PostAnalyze(req) /\ Unthrottled
    \/ \E req \in BatchRequests : CanDispatchSeq /\ PostBatch(req) /\ Unthrottled
    \/ \E call \in inflight : \E outcome \in PredictOutcomes :
           AnalyzeReply(call, outcome)
    \/ \E call \in inflight : \E outcome \in BatchOutcomes(Len(call.texts)) :
           BatchReply(call, outcome)
    \/ \E outcome \in ProbeOutcomes : GetHealth(outcome) /\ Unthrottled
    \/ Tick

SpecSeq == Init /\ [][NextSeq]_vars

---------------------------------------------------------------------------
(* Validation on its own: requests of every shape reach a gateway that has *)
(* dispatched nothing yet                                                  *)

Pads == {0, 1}
CoreLengths == {0, 1, MAX_TEXT_LENGTH, MAX_TEXT_LENGTH + 1}

\* texts of each shape; a text of whitespace only has its whitespace in lead
TextShapes ==
    { Text("a", l, c, t) : l \in Pads, c \in CoreLengths, t \in Pads }
    \ { Text("a", l, 0, 1) : l \in Pads }

IncludeConfidenceValues ==
    {JUndefined, JBool(TRUE), JBool(FALSE), JStr("false"), JStr("yes")}
ModelValues ==
    {JUndefined, JStr("random_forest"), JStr("naive_bayes"), JStr("gpt"), JStr("")}

AllAnalyzeRequests ==
    { AnalyzeRequest(t, ic, m) :
        t \in TextShapes, ic \in IncludeConfidenceValues, m \in ModelValues }

Filler(k) == [i \in 1..k |-> Text("f", 0, 1, 0)]

\* arrays of every length near the limits: up to two texts of any shape,
\* followed by valid texts
AllBatchRequests ==
    { BatchRequest(head \o Filler(k), JUndefined, JStr("gpt")) :
        head \in {<<>>} \cup {<<t>> : t \in TextShapes}
                 \cup {<<t, u>> : t \in {Text("a", 0, 1, 0), Text("a", 1, 0, 0)},
                                  u \in TextShapes},
        k \in {0, MAX_BATCH_SIZE - 2, MAX_BATCH_SIZE - 1, MAX_BATCH_SIZE} }

NextValidate ==
    \/ \E req \in AllAnalyzeRequests : predictCalls = 0 /\ PostAnalyze(req) /\ Unthrottled
    \/ \E req \in AllBatchRequests : predictCalls = 0 /\ PostBatch(req) /\ Unthrottled

SpecValidate == Init /\ [][NextValidate]_vars

---------------------------------------------------------------------------
(* The gateway with its read-only routes: health, readiness and liveness   *)
(* probes, the models list and the statistics snapshot arrive while        *)
(* inference calls are in flight                                           *)

OpsAnalyzeRequests ==
    { AnalyzeRequest(t, JUndefined, JUndefined) : t \in {ShortText, BlankText} }
OpsBatchRequests == { BatchRequest(<<ShortText>>, JUndefined, JUndefined) }

\* the status field of the body of a 2xx reply to the detailed probe
DataStatuses == {"none", "healthy", "degraded"}

CanProbe == Cardinality(inflight) < MaxInFlight

\* one reply that succeeds and one that fails, for each inference route
OpsPredictOutcomes ==
    { Ok(Prediction(0, 0)), Failed(AxiosError("ECONNREFUSED", FALSE, <<>>, <<>>)) }
OpsBatchOutcomes(n) ==
    { Ok(BatchData([i \in 1..n |-> Prediction(0, i)])),
      Failed(AxiosError("ETIMEDOUT", FALSE, <<>>, <<>>)) }

NextOps ==
    \/ \E req \in OpsAnalyzeRequests : CanDispatch /\ PostAnalyze(req) /\ Unthrottled
    \/ \E req \in OpsBatchRequests : CanDispatch /\ PostBatch(req) /\ Unthrottled
    \/ \E call \in inflight : \E outcome \in OpsPredictOutcomes :
           AnalyzeReply(call, outcome)
    \/ \E call \in inflight : \E outcome \in OpsBatchOutcomes(Len(call.texts)) :
           BatchReply(call, outcome)
    \/ \E route \in ProbeRoutes : CanProbe /\ Probe(route) /\ Unthrottled
    \/ \E call \in inflight : \E outcome \in ProbeOutcomes :
           \E dataStatus \in DataStatuses : ProbeReply(call, outcome, dataStatus)
    \/ GetLive /\ Unthrottled
    \/ GetStats /\ Unthrottled

SpecOps == Init /\ [][NextOps]_vars

---------------------------------------------------------------------------
(* The gateway under load: inference calls overlap and take up to          *)
(* MaxLoadTime ms each                                                     *)

Elapse ==
    /\ now < MaxLoadTime
    /\ now' = now + 1
    /\ UNCHANGED <<stats, inflight, predictCalls, forwarded, resp, hits, host, browser>>

NextLoad ==
    \/ \E req \in OpsAnalyzeRequests : CanDispatch /\ PostAnalyze(req) /\ Unthrottled
    \/ \E req \in OpsBatchRequests : CanDispatch /\ PostBatch(req) /\ Unthrottled
    \/ \E call \in inflight : \E outcome \in OpsPredictOutcomes :
           AnalyzeReply(call, outcome)
    \/ \E call \in inflight : \E outcome \in OpsBatchOutcomes(Len(call.texts)) :
           BatchReply(call, outcome)
    \/ Elapse

SpecLoad == Init /\ [][NextLoad]_vars

---------------------------------------------------------------------------
(* The gateway in front of an Inference Endpoint that may never reply: a   *)
(* reply or a rejection may or may not come, and the timeout axios was     *)
(* given (a positive number of ms) expires if nothing came before          *)

\* axios rejects once the timeout has passed with no reply
TimedOut == Failed(AxiosError("ECONNABORTED", FALSE, <<>>, <<>>))

\* the timeout of inference call id expires
ExpireCall(id) ==
    \E call \in inflight :
        /\ call.id = id
        /\ call.timeout > 0
        /\ \/ AnalyzeReply(call, TimedOut)
           \/ BatchReply(call, TimedOut)

\* the timeout of the probe of the route expires
ExpireProbe(route) ==
    \E call \in inflight :
        /\ call.route = route
        /\ call.timeout > 0
        /\ ProbeReply(call, "ETIMEDOUT", "none")

LiveProbeRoutes == {"health", "ready"}

NextLive ==
    \/ \E req \in OpsAnalyzeRequests : CanDispatch /\ PostAnalyze(req) /\ Unthrottled
    \/ \E req \in OpsBatchRequests : CanDispatch /\ PostBatch(req) /\ Unthrottled
    \/ \E call \in inflight : \E outcome \in OpsPredictOutcomes :
           AnalyzeReply(call, outcome)
    \/ \E call \in inflight : \E outcome \in OpsBatchOutcomes(Len(call.texts)) :
           BatchReply(call, outcome)
    \/ \E id \in 1..MaxCalls : ExpireCall(id)
    \/ \E route \in LiveProbeRoutes : CanProbe /\ Probe(route) /\ Unthrottled
    \/ \E call \in inflight : \E outcome \in {"2xx", "ECONNREFUSED"} :
           ProbeReply(call, outcome, "none")
    \/ \E route \in LiveProbeRoutes : ExpireProbe(route)

\* the timer of every call in flight fires if the call is still waiting
SpecLive ==
    /\ Init
    /\ [][NextLive]_vars
    /\ \A id \in 1..MaxCalls : WF_vars(ExpireCall(id))
    /\ \A route \in LiveProbeRoutes : WF_vars(ExpireProbe(route))

---------------------------------------------------------------------------
(* The fallback scorer (the serverless function api/sentiment): a string   *)
(* is the sequence of its characters.  Numbers are in ten-thousandths, as  *)
(* above; the values the function computes (0.6 + 0.1 * score, the shares  *)
(* of 1 - confidence) are exact in this unit, and Math.round(x * 100) /    *)
(* 100 rounds them to hundredths, a half going up, which is also what the  *)
(* function's floating point arithmetic yields for each of them.           *)

UpperCase ==
    <<"A", "B", "C", "D", "E", "F", "G", "H", "I", "J", "K", "L", "M",
      "N", "O", "P", "Q", "R", "S", "T", "U", "V", "W", "X", "Y", "Z">>
LowerCase ==
    <<"a", "b", "c", "d", "e", "f", "g", "h", "i", "j", "k", "l", "m",
      "n", "o", "p", "q", "r", "s", "t", "u", "v", "w", "x", "y", "z">>

\* String.prototype.toLowerCase
toLowerCase(t) ==
    [i \in 1..Len(t) |->
        IF \E k \in 1..Len(UpperCase) : UpperCase[k] = t[i]
        THEN LowerCase[CHOOSE k \in 1..Len(UpperCase) : UpperCase[k] = t[i]]
        ELSE t[i]]

\* String.prototype.trim on a sequence of characters
RECURSIVE trimStart(_)
trimStart(t) == IF t # <<>> /\ Head(t) = " " THEN trimStart(Tail(t)) ELSE t
RECURSIVE trimEnd(_)
trimEnd(t) ==
    IF t # <<>> /\ t[Len(t)] = " " THEN trimEnd(SubSeq(t, 1, Len(t) - 1)) ELSE t
trimChars(t) == trimEnd(trimStart(t))

\* String.prototype.substring(0, n)
substring0(t, n) == IF Len(t) <= n THEN t ELSE SubSeq(t, 1, n)

positiveWords ==
    << <<"l", "o", "v", "e">>,
       <<"g", "r", "e", "a", "t">>,
       <<"a", "w", "e", "s", "o", "m", "e">>,
       <<"a", "m", "a", "z", "i", "n", "g">>,
       <<"e", "x", "c", "e", "l", "l", "e", "n", "t">>,
       <<"f", "a", "n", "t", "a", "s", "t", "i", "c">>,
       <<"w", "o", "n", "d", "e", "r", "f", "u", "l">>,
       <<"g", "o", "o", "d">>,
       <<"b", "e", "s", "t">>,
       <<"p", "e", "r", "f", "e", "c", "t">>,
       <<"h", "a", "p", "p", "y">>,
       <<"e", "x", "c", "i", "t", "e", "d">>,
       <<"b", "r", "i", "l", "l", "i", "a", "n", "t">>,
       <<"o", "u", "t", "s", "t", "a", "n", "d", "i", "n", "g">>,
       <<"s", "u", "p", "e", "r", "b">>,
       <<"m", "a", "g", "n", "i", "f", "i", "c", "e", "n", "t">>,
       <<"i", "n", "c", "r", "e", "d", "i", "b", "l", "e">>,
       <<"m", "a", "r", "v", "e", "l", "o", "u", "s">>,
       <<"t", "e", "r", "r", "i", "f", "i", "c">>,
       <<"f", "a", "b", "u", "l", "o", "u", "s">> >>

negativeWords ==
    << <<"h", "a", "t", "e">>,
       <<"t", "e", "r", "r", "i", "b", "l", "e">>,
       <<"a", "w", "f", "u", "l">>,
       <<"h", "o", "r", "r", "i", "b", "l", "e">>,
       <<"b", "a", "d">>,
       <<"w", "o", "r", "s", "t">>,
       <<"d", "i", "s", "g", "u", "s", "t", "i", "n", "g">>,
       <<"d", "i", "s", "a", "p", "p", "o", "i", "n", "t", "i", "n", "g">>,
       <<"s", "a", "d">>,
       <<"a", "n", "g", "r", "y">>,
       <<"f", "r", "u", "s", "t", "r", "a", "t", "e", "d">>,
       <<"a", "n", "n", "o", "y", "i", "n", "g">>,
       <<"u", "s", "e", "l", "e", "s", "s">>,
       <<"p", "a", "t", "h", "e", "t", "i", "c">>,
       <<"r", "i", "d", "i", "c", "u", "l", "o", "u", "s">>,
       <<"s", "t", "u", "p", "i", "d">>,
       <<"b", "o", "r", "i", "n", "g">>,
       <<"d", "r", "e", "a", "d", "f", "u", "l">>,
       <<"a", "p", "p", "a", "l", "l", "i", "n", "g">> >>

\* words.forEach(word => { if (lowerText.includes(word)) score++ })
wordScore(lowerText, words) ==
    Cardinality({k \in 1..Len(words) : includes(lowerText, words[k])})

Min(a, b) == IF a <= b THEN a ELSE b

\* Math.round(x * 100) / 100, x >= 0 in ten-thousandths
roundHundredths(x) == ((x + 50) \div 100) * 100

\* probabilities before rounding: the winner has the confidence, and of
\* 1 - confidence the other polarity has 0.3 and Neutral 0.7; or, for a
\* Neutral result, the two polarities have 0.5 each
simpleProbabilities(sentiment, confidence) ==
    IF sentiment = "Positive"
    THEN [Positive |-> confidence,
          Negative |-> ((10000 - confidence) * 3) \div 10,
          Neutral |-> ((10000 - confidence) * 7) \div 10]
    ELSE IF sentiment = "Negative"
    THEN [Negative |-> confidence,
          Positive |-> ((10000 - confidence) * 3) \div 10,
          Neutral |-> ((10000 - confidence) * 7) \div 10]
    ELSE [Neutral |-> confidence,
          Positive |-> ((10000 - confidence) * 5) \div 10,
          Negative |-> ((10000 - confidence) * 5) \div 10]

analyzeSentimentSimple(text) ==
    LET lowerText == toLowerCase(text)
        positiveScore == wordScore(lowerText, positiveWords)
        negativeScore == wordScore(lowerText, negativeWords)
        sentiment == IF positiveScore > negativeScore THEN "Positive"
                     ELSE IF negativeScore > positiveScore THEN "Negative"
                     ELSE "Neutral"
        confidence == IF positiveScore > negativeScore
                      THEN Min(6000 + positiveScore * 1000, 9500)
                      ELSE IF negativeScore > positiveScore
                      THEN Min(6000 + negativeScore * 1000, 9500)
                      ELSE 7000
        probabilities == simpleProbabilities(sentiment, confidence)
    IN [label |-> sentiment,
        confidence |-> roundHundredths(confidence),
        probabilities |->
            [Positive |-> roundHundredths(probabilities.Positive),
             Negative |-> roundHundredths(probabilities.Negative),
             Neutral |-> roundHundredths(probabilities.Neutral)]]

\* request bodies: text is a string, or something else (absent, a number)
TextBody(chars) == [type |-> "string", chars |-> chars]
NoTextBody == [type |-> "undefined", chars |-> <<>>]

\* the serverless function: module.exports = async (req, res) => ...
FallbackResponse(method, text) ==
    IF method = "OPTIONS"
    THEN [route |-> "fallback", status |-> 200, req |-> [method |-> method, text |-> text],
          body |-> [success |-> TRUE, error |-> ""]]
    ELSE IF method # "POST"
    THEN [route |-> "fallback", status |-> 405, req |-> [method |-> method, text |-> text],
          body |-> [success |-> FALSE, error |-> "Method not allowed"]]
    ELSE IF text.type # "string" \/ text.chars = <<>> \/ Len(trimChars(text.chars)) = 0
    THEN [route |-> "fallback", status |-> 400, req |-> [method |-> method, text |-> text],
          body |-> [success |-> FALSE,
                    error |-> "Text is required and must be a non-empty string"]]
    ELSE LET sentiment == analyzeSentimentSimple(text.chars) IN
         [route |-> "fallback", status |-> 200, req |-> [method |-> method, text |-> text],
          body |-> [success |-> TRUE,
                    data |-> [sentiment |-> sentiment.label,
                              confidence |-> sentiment.confidence,
                              probabilities |-> sentiment.probabilities,
                              text |-> substring0(text.chars, 100)]]]

Fallback(method, text) ==
    /\ resp' = FallbackResponse(method, text)
    /\ UNCHANGED <<stats, inflight, now, predictCalls, forwarded, hits, host, browser>>

\* the words the sample texts are made of
Vocabulary ==
    { <<"g", "o", "o", "d">>, <<"G", "r", "e", "a", "t">>, <<"l", "o", "v", "e">>,
      <<"b", "e", "s", "t">>, <<"b", "a", "d">>, <<"S", "A", "D">>,
      <<"t", "h", "e">> }

\* texts of n words, each followed by a space
RECURSIVE Phrases(_)
Phrases(n) ==
    IF n = 0 THEN {<<>>}
    ELSE {w \o <<" ">> \o p : w \in Vocabulary, p \in Phrases(n - 1)}

ScorerTexts ==
    {NoTextBody}
    \cup {TextBody(p) : p \in UNION {Phrases(n) : n \in 0..MaxWords}}
    \cup {TextBody(<<" ">> \o p) : p \in Phrases(1)}
    \cup {TextBody(<<" ", " ">>)}

\* the function keeps no state: one request, of each method and each text
NextScorer ==
    \E method \in {"POST", "GET", "OPTIONS"} : \E text \in ScorerTexts :
        /\ resp = NoResponse
        /\ method # "POST" => text = NoTextBody
        /\ Fallback(method, text)

SpecScorer == Init /\ [][NextScorer]_vars

---------------------------------------------------------------------------
(* The gateway started in each mode: NODE_ENV unset, empty, or set *)

NodeEnvs == {JUndefined, JStr(""), JStr("development"), JStr("production")}

InitEnv == \E nodeEnv \in NodeEnvs : Boot(nodeEnv)

SpecEnv == InitEnv /\ [][NextSeq]_vars

---------------------------------------------------------------------------
(* The process and its connections: clients connect, send requests and     *)
(* leave as they please; the server answers every request and ends a       *)
(* connection that stays idle; signals and fatal errors arrive at any time *)

NextProcess ==
    \/ \E c \in 1..MaxConnections : Client(c)
    \/ \E c \in 1..MaxConnections : Socket(c)
    \/ gracefulShutdown
    \/ unhandledRejection
    \/ uncaughtException
    \/ emitClose

\* the server's own steps are taken when they stay possible; nothing is
\* assumed of the clients, the signals or the errors
SpecProcess ==
    /\ Init
    /\ [][NextProcess]_vars
    /\ \A c \in 1..MaxConnections : WF_vars(Socket(c))
    /\ WF_vars(emitClose)

---------------------------------------------------------------------------
(* The application behind its rate limiter: each client's requests are     *)
(* counted up to one past the limit, and windows end at any time           *)

CanCount(ip) == hits[ip] <= RATE_LIMIT_MAX_REQUESTS
OverLimit(ip) == hits[ip] >= RATE_LIMIT_MAX_REQUESTS

NextLimit ==
    \/ \E ip \in Clients : \E req \in OpsAnalyzeRequests :
           /\ CanCount(ip)
           /\ OverLimit(ip) \/ CanDispatchSeq
           /\ app(ip, <<"api", "sentiment", "analyze">>, PostAnalyze(req))
    \/ \E ip \in Clients : \E req \in OpsBatchRequests :
           /\ CanCount(ip)
           /\ OverLimit(ip) \/ CanDispatchSeq
           /\ app(ip, <<"api", "sentiment", "batch">>, PostBatch(req))
    \/ \E ip \in Clients :
           CanCount(ip) /\ app(ip, <<"api", "sentiment", "stats">>, GetStats)
    \/ \E call \in inflight : \E outcome \in OpsPredictOutcomes :
           AnalyzeReply(call, outcome)
    \/ \E call \in inflight : \E outcome \in OpsBatchOutcomes(Len(call.texts)) :
           BatchReply(call, outcome)
    \/ \E ip \in Clients : \E route \in ProbeRoutes :
           /\ route = "models" => CanCount(ip)
           /\ OverLimit(ip) \/ CanProbe
           /\ app(ip, ProbePath(route), Probe(route))
    \/ \E call \in inflight : \E outcome \in {"2xx", "ECONNREFUSED"} :
           ProbeReply(call, outcome, "none")
    \/ \E ip \in Clients : app(ip, <<"health", "live">>, GetLive)
    \/ \E ip \in Clients : WindowEnds(ip)

SpecLimit == Init /\ [][NextLimit]_vars

---------------------------------------------------------------------------
(* The page in the browser: health checks settle with each answer of the   *)
(* gateway or with none, and the user types, submits, clears and picks     *)
(* examples as the rendered controls allow                                 *)

\* what GET /health of the gateway answers, and no answer at all
HealthAnswers == {HealthResponse(outcome) : outcome \in ProbeOutcomes} \cup {NoResponse}

\* what POST /api/sentiment/analyze settles with in the browser
AnalyzeSettlements ==
    { Fulfilled(TRUE, [type |-> "object", val |-> Labels[i]], JUndefined) : i \in 1..3 }
    \cup { Fulfilled(TRUE, JNull, JUndefined),
           Fulfilled(FALSE, JNull, JUndefined),
           Fulfilled(FALSE, JNull, JStr("Validation failed")),
           Thrown("Network error occurred. Please check your connection."),
           Thrown("Request timed out. Please try again.") }

NextBrowser ==
    \/ \E answer \in HealthAnswers : checkHealthStatus(answer)
    \/ \E newText \in TextShapes : handleTextChange(newText)
    \/ handleAnalyze
    \/ \E response \in AnalyzeSettlements : analyzeSettles(response)
    \/ handleClear
    \/ handleTryExample(ShortText)

SpecBrowser == Init /\ [][NextBrowser]_vars

---------------------------------------------------------------------------
(* retryWithBackoff called once, with each maxRetries and baseDelay, around *)
(* a function that succeeds or fails at each attempt                        *)

BaseDelays == {0, 1, 1000}
Failures == {JStr("E1"), JStr("E2"), JStr("E3")}

NextRetry ==
    \/ \E maxRetries \in 0..MaxRetries : \E baseDelay \in BaseDelays :
           retryWithBackoff(maxRetries, baseDelay)
    \/ fnSettles(TRUE, JStr("value"))
    \/ \E error \in Failures : fnSettles(FALSE, error)
    \/ timerFires

SpecRetry == Init /\ [][NextRetry]_vars

---------------------------------------------------------------------------
(* Properties *)

Counted == stats.successfulRequests + stats.failedRequests

\* C1 (as claimed): once every dispatched call has completed, totalRequests is
\* the number of calls made and successfulRequests + failedRequests equals
\* totalRequests, whatever each reply was.
C1_StatsAddUp ==
    inflight = {} =>
        /\ stats.totalRequests = predictCalls
        /\ Counted = stats.totalRequests

\* the step answers request r of the route after its validation failed
RejectionStep(route) ==
    /\ resp'.route = route
    /\ IF route = "analyze"
       THEN validateTextInput(resp'.req) # <<>> /\ PostAnalyze(resp'.req)
       ELSE validateBatchInput(resp'.req) # <<>> /\ PostBatch(resp'.req)

\* C2: a request that fails validation is answered 400, reaches no inference
\* call and leaves every field of the statistics as it was.
C2_RejectionLeavesStats ==
    [][ \A route \in {"analyze", "batch"} :
            RejectionStep(route) =>
                /\ resp'.status = 400
                /\ stats' = stats
                /\ predictCalls' = predictCalls
                /\ inflight' = inflight
                /\ forwarded' = forwarded
      ]_vars

\* a rejection arrives while calls are counted and one still awaits its reply
C2_Witness ==
    /\ resp.status = 400
    /\ resp.route = "batch"
    /\ stats.totalRequests = 2
    /\ Counted = 1
    /\ inflight # {}

Accepted(route) == forwarded.url = route
Rejected(route) == resp.route = route /\ resp.status = 400

\* C3 (as claimed): no analyze request whose text, as submitted, has length 0
\* or more than 5000 characters is accepted.
C3_SubmittedLength ==
    Accepted("/predict") =>
        /\ StrLen(forwarded.req.text) >= 1
        /\ StrLen(forwarded.req.text) <= MAX_TEXT_LENGTH

\* C3 (amended): the length is taken after trimming: no analyze request whose
\* trimmed text has length 0 or more than 5000 is accepted, it is answered 400;
\* and the text sent on is the trimmed one.
C3_TrimmedLength ==
    /\ Accepted("/predict") =>
          /\ forwarded.req.text.core >= 1
          /\ forwarded.req.text.core <= MAX_TEXT_LENGTH
          /\ StrLen(forwarded.body.text) = forwarded.req.text.core
    /\ Rejected("analyze") =>
          /\ resp.body.details # <<>>
          /\ \/ resp.req.text.core = 0
             \/ resp.req.text.core > MAX_TEXT_LENGTH
             \/ \E k \in 1..Len(resp.body.details) : resp.body.details[k].path # "text"

\* a text of 5001 characters as submitted, 5000 once trimmed, is accepted after
\* a text of 5001 characters proper was rejected
C3_Witness ==
    /\ Accepted("/predict")
    /\ StrLen(forwarded.req.text) = MAX_TEXT_LENGTH + 1
    /\ forwarded.req.text.core = MAX_TEXT_LENGTH
    /\ Rejected("analyze")
    /\ resp.req.text.core = MAX_TEXT_LENGTH + 1

\* the rules of POST /analyze, as the request body violates them
BooleanLike(v) == v.type = "boolean" \/ v.val \in {"true", "false", "1", "0"}
RuleIf(violated, e) == IF violated THEN {e} ELSE {}
ViolatedRules(req) ==
    RuleIf(req.text.core = 0, Err(<<"text", 0>>, "Text is required"))
    \cup RuleIf(req.text.core = 0 \/ req.text.core > MAX_TEXT_LENGTH,
               Err(<<"text", 0>>, "Text must be between 1 and 5000 characters"))
    \cup RuleIf(req.includeConfidence.type # "undefined"
                   /\ ~BooleanLike(req.includeConfidence),
               Err(<<"options.includeConfidence", 0>>,
                   "includeConfidence must be a boolean"))
    \cup RuleIf(req.model.type # "undefined" /\ req.model.val \notin ValidModels,
               Err(<<"options.model", 0>>, "Invalid model type"))

\* C4: the details of a 400 from POST /analyze hold an entry for every rule
\* the request violates, and as many entries as rules violated.
C4_EveryViolationListed ==
    Rejected("analyze") =>
        /\ \A e \in ViolatedRules(resp.req) :
              \E k \in 1..Len(resp.body.details) : resp.body.details[k] = e
        /\ Len(resp.body.details) = Cardinality(ViolatedRules(resp.req))

\* a blank text with a non-boolean includeConfidence and an unknown model
C4_Witness ==
    /\ Rejected("analyze")
    /\ resp.req.text.core = 0
    /\ resp.req.includeConfidence = JStr("yes")
    /\ resp.req.model = JStr("gpt")
    /\ Len(resp.body.details) = 4

Answered(route) == resp.route = route /\ resp.status # 400
UpstreamFailed(route) == Answered(route) /\ resp.outcome.kind = "error"

\* C5 (as claimed): connection refused is answered 503, a timeout 408 or 504,
\* a non-2xx reply 503 with the upstream's message.
C5_StatusByFailure ==
    UpstreamFailed("analyze") =>
        LET e == resp.outcome.error IN
        /\ e.code = "ECONNREFUSED" => resp.status = 503
        /\ e.code \in {"ETIMEDOUT", "ECONNABORTED"} => resp.status \in {408, 504}
        /\ e.hasResponse =>
              /\ resp.status = 503
              /\ includes(resp.body.message, UpstreamMessage(e))

\* what POST /analyze answers to a failure, from the statistics and the clock
\* of the state
AnalyzeAnswer(outcome) ==
    ErrorResponse("analyze", resp.call, outcome,
                  analyzeSentimentReply(stats, resp.call, outcome, now).error)

\* C6 (as claimed): POST /batch answers an upstream failure with the status and
\* the category POST /analyze answers it with.
C6_BatchAsAnalyze ==
    UpstreamFailed("batch") =>
        /\ resp.status = AnalyzeAnswer(resp.outcome).status
        /\ resp.body.error = AnalyzeAnswer(resp.outcome).body.error

BatchSucceeded == resp.route = "batch" /\ resp.status = 200

\* C7: in a successful batch, result i carries prediction i of the reply
\* (label, confidence to 3 decimals) and text i of the request (as sanitized:
\* trimmed), and the results are as many as the predictions.
C7_IndexAligned ==
    BatchSucceeded =>
        LET predictions == resp.outcome.data.predictions
            results == resp.body.data
        IN /\ Len(results) = Len(predictions)
           /\ \A i \in 1..Len(results) :
                 /\ results[i].sentiment = predictions[i].sentiment
                 /\ results[i].confidence - predictions[i].confidence.n \in -5..5
                 /\ i <= Len(resp.req.texts) =>
                       /\ results[i].hasText
                       /\ results[i].text.id = resp.req.texts[i].id
                       /\ results[i].text.core = resp.req.texts[i].core
                       /\ StrLen(results[i].text) = resp.req.texts[i].core

\* two texts, two labels
C7_Witness ==
    /\ BatchSucceeded
    /\ Len(resp.req.texts) = 2
    /\ Len(resp.body.data) = 2
    /\ resp.req.texts[1].id # resp.req.texts[2].id
    /\ resp.body.data[1].sentiment # resp.body.data[2].sentiment
    /\ resp.body.data[2].text.id = "b"

\* C8 (as claimed): a batch answered 200 carries as many results as the
\* request carried texts.
C8_AllOrNothing ==
    BatchSucceeded =>
        /\ resp.body.count = Len(resp.req.texts)
        /\ Len(resp.body.data) = Len(resp.req.texts)

ValidItem(t) == t.core >= 1 /\ t.core <= MAX_TEXT_LENGTH

\* C9: a batch is accepted only with 1 to 100 texts, each non-empty and at
\* most 5000 characters once trimmed; any other is answered 400.
C9_BatchLimits ==
    /\ Accepted("/predict/batch") =>
          /\ Len(forwarded.req.texts) >= 1
          /\ Len(forwarded.req.texts) <= MAX_BATCH_SIZE
          /\ \A i \in 1..Len(forwarded.req.texts) : ValidItem(forwarded.req.texts[i])
    /\ Rejected("batch") =>
          /\ resp.body.details # <<>>
          /\ \/ Len(resp.req.texts) = 0
             \/ Len(resp.req.texts) > MAX_BATCH_SIZE
             \/ \E i \in 1..Len(resp.req.texts) : ~ValidItem(resp.req.texts[i])

\* 101 valid texts were rejected, then 100 were accepted
C9_Witness ==
    /\ Rejected("batch")
    /\ Len(resp.req.texts) = MAX_BATCH_SIZE + 1
    /\ \A i \in 1..Len(resp.req.texts) : ValidItem(resp.req.texts[i])
    /\ Accepted("/predict/batch")
    /\ Len(forwarded.req.texts) = MAX_BATCH_SIZE

\* C10: GET /health reports api healthy; its status is healthy exactly when
\* the probe got a 2xx and degraded otherwise; it answers 200 exactly when
\* healthy and 503 otherwise.
C10_HealthAggregation ==
    resp.route = "health" =>
        /\ resp.body.services.api = "healthy"
        /\ resp.body.status = "healthy" <=> resp.probe = "2xx"
        /\ resp.body.status # "healthy" => resp.body.status = "degraded"
        /\ resp.status = 200 <=> resp.body.status = "healthy"
        /\ resp.status # 200 => resp.status = 503

\* the probe timed out
C10_Witness ==
    /\ resp.route = "health"
    /\ resp.probe = "ETIMEDOUT"
    /\ resp.status = 503
    /\ resp.body.status = "degraded"
    /\ resp.body.services.mlService = "unhealthy"


\* C11: GET /health/ready answers 200 {status: "ready"} exactly when the probe
\* it issued got a 2xx (checkMLServiceHealth reports healthy) and 503
\* {status: "not ready"} otherwise; GET /health/live answers 200
\* {status: "alive"} in every state, and the step that answers it issues no
\* call to the Inference Endpoint.
C11_ReadyAndLive ==
    /\ [](resp.route = "ready" =>
            /\ resp.probe = "2xx" <=> resp.status = 200
            /\ resp.status = 200 <=> resp.body.status = "ready"
            /\ resp.status # 200 =>
                  resp.status = 503 /\ resp.body.status = "not ready")
    /\ [](resp.route = "live" => resp.status = 200 /\ resp.body.status = "alive")
    /\ [][ resp'.route = "live" /\ resp' # resp =>
              /\ inflight' = inflight
              /\ predictCalls' = predictCalls
              /\ forwarded' = forwarded ]_vars
    /\ [](ENABLED GetLive)

\* the readiness probe was refused while an inference call awaited its reply
C11_Witness ==
    /\ resp.route = "ready"
    /\ resp.probe = "ECONNREFUSED"
    /\ resp.status = 503
    /\ resp.body.status = "not ready"
    /\ \E call \in inflight : call.route = "analyze"


\* the routes that only read
ReadOnlyRoutes == {"stats", "models", "health", "detailed", "ready", "live"}

\* the step dispatches the inference call of a request that passed validation
AcceptedStep ==
    /\ predictCalls' = predictCalls + 1
    /\ \/ forwarded'.url = "/predict" /\ validateTextInput(forwarded'.req) = <<>>
       \/ forwarded'.url = "/predict/batch" /\ validateBatchInput(forwarded'.req) = <<>>

\* the step completes an inference call
CompletionStep ==
    \E call \in inflight :
        /\ call.route \in {"analyze", "batch"}
        /\ inflight' = inflight \ {call}

\* C17: the steps of GET /api/sentiment/stats, /api/sentiment/models, /health,
\* /health/detailed, /health/ready and /health/live (the probe leaving, the
\* response, a 2xx or a failure) leave every field of the statistics as it
\* was; the statistics change only in the steps of an analyze or batch call
\* that passed validation.
C17_ReadOnlyRoutes ==
    /\ [][ resp'.route \in ReadOnlyRoutes /\ resp' # resp => stats' = stats ]_vars
    /\ [][ (\E call \in inflight' \ inflight : call.route \in ProbeRoutes) =>
              stats' = stats ]_vars
    /\ [][ stats' # stats => AcceptedStep \/ CompletionStep ]_vars

\* the snapshot shows two counted calls, one of them still awaiting its reply,
\* and the statistics are what they were
C17_Witness ==
    /\ resp.route = "stats"
    /\ resp.body.data.totalRequests = 2
    /\ resp.body.data.failedRequests = 1
    /\ resp.body.data = stats
    /\ \E call \in inflight : call.route = "batch"


\* C12: the calls to the Inference Endpoint grow only by one at a time, in
\* the step that accepts a valid analyze or batch request, and that one call
\* carries the request's whole body (all the texts of a batch); the step that
\* completes a call, whatever the reply, a failure or a timeout, issues none;
\* so the calls made are as many as the requests accepted.
C12_OneCallPerRequest ==
    /\ [][ predictCalls' # predictCalls \/ forwarded' # forwarded =>
              /\ AcceptedStep
              /\ \E call \in inflight' \ inflight :
                    /\ inflight' = inflight \cup {call}
                    /\ call.id = predictCalls'
                    /\ call.req = forwarded'.req
                    /\ forwarded'.url = "/predict/batch" =>
                          /\ forwarded'.body.texts = call.texts
                          /\ Len(call.texts) = Len(call.req.texts) ]_vars
    /\ [][ CompletionStep =>
              /\ predictCalls' = predictCalls
              /\ forwarded' = forwarded
              /\ resp'.call \in inflight
              /\ inflight' = inflight \ {resp'.call} ]_vars
    /\ [](predictCalls = stats.totalRequests)

\* a batch of two texts timed out: one call was made and none is in flight
C12_Witness ==
    /\ resp.route = "batch"
    /\ resp.status >= 500
    /\ resp.outcome.kind = "error"
    /\ resp.outcome.error.code = "ECONNABORTED"
    /\ Len(resp.req.texts) = 2
    /\ predictCalls = 1
    /\ inflight = {}


\* C13 (as claimed): with calls running one at a time, the completion of a
\* call moves the average by avg' = avg + (sample - avg)/n, n being
\* totalRequests: n * avg' = (n - 1) * avg + sample, which keeps the average
\* at the arithmetic mean of the samples.
C13_RunningMean ==
    [][ CompletionStep =>
            stats'.averageResponseTime * stats.totalRequests
                = stats.averageResponseTime * (stats.totalRequests - 1)
                  + (now - resp'.call.start) ]_vars


\* the calls completed so far
Completed == stats.totalRequests - Cardinality(inflight)

\* C14 (as claimed): with calls overlapping and completing in any order, every
\* completion is counted once, as a success or as a failure, and enters the
\* average with the weight a one-at-a-time execution gives it, that of the
\* (Completed + 1)-th sample; once all have completed the counters equal the
\* number of calls.
C14_NoUpdateLost ==
    /\ [][ CompletionStep =>
              /\ Counted' = Counted + 1
              /\ stats'.totalRequests = stats.totalRequests
              /\ stats'.averageResponseTime =
                    MathRound(stats.averageResponseTime * Completed
                                  + (now - resp'.call.start),
                              Completed + 1) ]_vars
    /\ [](inflight = {} =>
              /\ stats.totalRequests = predictCalls
              /\ Counted = predictCalls)


InFlight(id) == \E call \in inflight : call.id = id
Probing(route) == \E call \in inflight : call.route = route
AnswersCall(id) ==
    /\ resp.route \in {"analyze", "batch"}
    /\ resp.status # 400
    /\ resp.call.id = id

\* C15: every call awaited carries its timeout (the configured one for
\* POST /predict, twice that for POST /predict/batch, 5000 ms for a probe);
\* a request whose call is awaited is answered in the end, also when the
\* Inference Endpoint never replies; a call leaves the awaited ones only in
\* the step that answers its request, and a call that left is not awaited
\* again, so the request is answered once; and the expiry of the timeout is
\* answered with an error.
C15_AlwaysAnswered ==
    /\ [](\A call \in inflight :
            call.timeout = CASE call.route = "analyze" -> ML_SERVICE_TIMEOUT
                             [] call.route = "batch" -> 2 * ML_SERVICE_TIMEOUT
                             [] OTHER -> PROBE_TIMEOUT)
    /\ \A id \in 1..MaxCalls : InFlight(id) ~> (AnswersCall(id) /\ ~InFlight(id))
    /\ \A route \in LiveProbeRoutes :
          Probing(route) ~> (resp.route = route /\ ~Probing(route))
    /\ [][ \A call \in inflight \ inflight' :
              /\ resp'.route = call.route
              /\ call.id # 0 => resp'.call = call ]_vars
    /\ [][ \A call \in inflight' \ inflight :
              call.id = 0 \/ call.id > predictCalls ]_vars
    /\ [](\A id \in 1..MaxCalls :
            AnswersCall(id) /\ resp.outcome = TimedOut =>
                resp.status >= 500 /\ ~resp.body.success)
    /\ [](resp.route \in LiveProbeRoutes /\ resp.probe = "ETIMEDOUT" =>
            resp.status = 503)

\* the call of a batch request timed out and the request was answered 503,
\* while a readiness probe is awaited
C15_Witness ==
    /\ AnswersCall(1)
    /\ resp.route = "batch"
    /\ resp.outcome = TimedOut
    /\ resp.status = 503
    /\ ~InFlight(1)
    /\ Probing("ready")


\* the statuses of the error taxonomy
TaxonomyStatuses == {400, 408, 504, 503, 500}

\* C16 (as claimed): whatever the Inference Endpoint replies to a valid text,
\* POST /analyze answers either 200 with a sentiment among Positive, Negative
\* and Neutral and a confidence in [0, 1], or an error with a status of the
\* taxonomy.
C16_ResultOrError ==
    resp.route = "analyze" =>
        \/ /\ resp.status = 200
           /\ resp.body.success
           /\ resp.body.data.sentiment \in
                  {JStr("Positive"), JStr("Negative"), JStr("Neutral")}
           /\ resp.body.data.confidence >= 0
           /\ resp.body.data.confidence <= 10000
        \/ /\ resp.status \in TaxonomyStatuses
           /\ ~resp.body.success


\* the failures of a call that found no Inference Endpoint to talk to: the
\* connection was refused, or there is no route to the host
UnreachableCodes == {"ECONNREFUSED", "EHOSTUNREACH"}

\* C18 (as claimed): a valid analyze call whose Inference Endpoint is
\* unreachable is answered 503; accepting it adds one to totalRequests and
\* its completion adds one to failedRequests, and nothing else changes in
\* the counters.
C18_UnreachableCounted ==
    /\ [][ AcceptedStep =>
              /\ stats'.totalRequests = stats.totalRequests + 1
              /\ stats'.failedRequests = stats.failedRequests
              /\ stats'.successfulRequests = stats.successfulRequests ]_vars
    /\ [][ /\ CompletionStep
           /\ resp'.route = "analyze"
           /\ resp'.outcome.kind = "error"
           /\ resp'.outcome.error.code \in UnreachableCodes
           => /\ resp'.status = 503
              /\ stats'.totalRequests = stats.totalRequests
              /\ stats'.failedRequests = stats.failedRequests + 1
              /\ stats'.successfulRequests = stats.successfulRequests ]_vars




Scored == resp.route = "fallback" /\ resp.req.method = "POST" /\ resp.status = 200

\* word w occurs in text t right after position i
OccursAt(t, i, w) ==
    /\ i + Len(w) <= Len(t)
    /\ \A j \in 1..Len(w) : t[i + j] = w[j]

\* the occurrences in t of the words of a list: each place at which one of
\* them stands
Occurrences(t, words) ==
    Cardinality({ik \in (0..Len(t)) \X (1..Len(words)) :
                    OccursAt(t, ik[1], words[ik[2]])})

Max(a, b) == IF a >= b THEN a ELSE b

\* C19 (as claimed): with p and q the occurrences of positive and of negative
\* words in the lower-cased text, the label is Positive if p > q, Negative if
\* q > p and Neutral if p = q, and the confidence is
\* min(0.6 + 0.1 * max(p, q), 0.95), or 0.7 for Neutral.
C19_LabelAndConfidence ==
    Scored =>
        LET lowerText == toLowerCase(resp.req.text.chars)
            p == Occurrences(lowerText, positiveWords)
            q == Occurrences(lowerText, negativeWords)
        IN /\ resp.body.data.sentiment =
                 (IF p > q THEN "Positive" ELSE IF q > p THEN "Negative"
                  ELSE "Neutral")
           /\ resp.body.data.confidence =
                 (IF p = q THEN 7000 ELSE Min(6000 + 1000 * Max(p, q), 9500))

\* C20 (as claimed): in the result returned, the two classes that did not win
\* hold 1 - confidence between them, 30/70 (the other polarity, Neutral) after
\* a Positive or Negative result and 50/50 after a Neutral one, at each
\* confidence (0.7, 0.8, 0.9, 0.95); the three probabilities add up to 1.
C20_ProbabilitiesAddUp ==
    Scored =>
        LET data == resp.body.data
            rest == 10000 - data.confidence
            other == IF data.sentiment = "Positive" THEN "Negative" ELSE "Positive"
        IN /\ data.confidence \in {7000, 8000, 9000, 9500}
           /\ data.probabilities.Positive + data.probabilities.Negative
                 + data.probabilities.Neutral = 10000
           /\ data.sentiment # "Neutral" =>
                 /\ data.probabilities[data.sentiment] = data.confidence
                 /\ 10 * data.probabilities[other] = 3 * rest
                 /\ 10 * data.probabilities.Neutral = 7 * rest
           /\ data.sentiment = "Neutral" =>
                 /\ data.probabilities.Neutral = data.confidence
                 /\ 2 * data.probabilities.Positive = rest
                 /\ 2 * data.probabilities.Negative = rest



\* the most recent response is an error response
ErrorSent == resp.status >= 400

\* the fields of the body that carry the stack trace and the request
ExposedFields == DOMAIN resp.body \cap {"details", "request"}

\* C21 (as claimed): an error response body contains details or request only
\* when the gateway runs in development; in every other mode neither field is
\* present in any error response.
C21_DevelopmentOnly ==
    ErrorSent /\ ExposedFields # {} => config.NODE_ENV = JStr("development")

\* C21 (amended): the responses of errorHandler carry details and request
\* exactly when config.NODE_ENV is 'development' (NODE_ENV unset or empty
\* included); the 400 'Validation failed' response carries details, the list
\* of the violated rules, in every mode and never request; no other error
\* response carries either field.
C21_HandlerDevelopmentOnly ==
    ErrorSent =>
        IF resp.status = 400 /\ resp.body.error = "Validation failed"
        THEN ExposedFields = {"details"}
        ELSE IF "call" \in DOMAIN resp /\ config.NODE_ENV = JStr("development")
        THEN ExposedFields = {"details", "request"}
        ELSE ExposedFields = {}

\* errorHandler answered a failed call of a gateway run in production
C21_Witness ==
    /\ resp.status = 503
    /\ "call" \in DOMAIN resp
    /\ process.env.NODE_ENV = JStr("production")
    /\ ExposedFields = {}

\* C22 (as claimed): the payload forwarded for an analyze request that passed
\* validation has include_probabilities equal to the caller's
\* options.includeConfidence when one was supplied and true otherwise, and
\* model equal to the caller's options.model when supplied and
\* "random_forest" otherwise.
C22_OptionsForwarded ==
    forwarded.url = "/predict" =>
        LET req == forwarded.req IN
        /\ forwarded.body.include_probabilities =
              IF req.includeConfidence = JUndefined THEN TRUE
              ELSE req.includeConfidence.val = "true"
        /\ forwarded.body.model =
              IF req.model = JUndefined THEN JStr(DefaultModel) ELSE req.model

\* a fatal error reached the process: its handler has logged it
FatalLogged ==
    process.logged \cap {"Unhandled Promise Rejection", "Uncaught Exception"} # {}

\* C23 (as claimed): after an uncaught exception or an unhandled promise
\* rejection, the process always eventually exits with a non-zero code,
\* however many client connections are open at that moment.
C23_FatalExits == FatalLogged ~> (process.exited /\ process.exitCode # 0)

\* C24 (as claimed): the client stores 'unhealthy' only when the gateway gave
\* no response to the poll; when the gateway answers GET /health with status
\* "degraded", the client stores 'degraded' and keeps the analyzer on screen.
C24_DegradedKept ==
    /\ healthStatus.status = "unhealthy" => healthStatus.answer = NoResponse
    /\ healthStatus.answer.status # 0 /\ healthStatus.answer.body.status = "degraded"
          => healthStatus.status = "degraded" /\ Shown(healthStatus)

\* the routes mounted under /health
HealthRouteNames == {"health", "detailed", "ready", "live"}

\* the step is a request of the client at ip that the rate limiter counted
CountedStep(ip) == hits'[ip] = hits[ip] + 1

\* C25: a request under /api/ of a client that has used up its limit in the
\* window is answered 429 by the limiter, with no validation, no call to the
\* Inference Endpoint and the statistics unchanged; a request to /health,
\* /health/detailed, /health/ready or /health/live is never counted nor
\* answered by the limiter, whatever the client's count.
C25_LimiterBeforeRoutes ==
    [][ /\ \A ip \in Clients :
              CountedStep(ip) /\ hits[ip] >= RATE_LIMIT_MAX_REQUESTS =>
                  /\ resp'.route = "limiter"
                  /\ resp'.status = 429
                  /\ UNCHANGED <<stats, inflight, predictCalls, forwarded>>
        /\ \A ip \in Clients :
              CountedStep(ip) =>
                  /\ \A call \in inflight' \ inflight : call.route \notin HealthRouteNames
                  /\ resp' # resp => resp'.route \notin HealthRouteNames
        /\ \A ip \in Clients :
              hits[ip] > RATE_LIMIT_MAX_REQUESTS =>
                  /\ ENABLED app(ip, <<"health", "live">>, GetLive)
                  /\ inflight = {} => ENABLED app(ip, <<"health", "ready">>, Probe("ready"))
      ]_vars

\* a client past its limit was answered 429 while another request's call
\* had been counted in the statistics
C25_Witness ==
    /\ resp.status = 429
    /\ \E ip \in Clients : hits[ip] > RATE_LIMIT_MAX_REQUESTS
    /\ stats.totalRequests > 0

\* the inference calls awaiting their reply
InferenceCalls == {call \in inflight : call.route \in {"analyze", "batch"}}

\* C26 (as claimed): in every state, calls in flight included, totalRequests
\* is successfulRequests + failedRequests + the number of inference calls in
\* flight; successfulRequests + failedRequests never exceeds totalRequests.
C26_CountedOnce ==
    /\ stats.totalRequests = Counted + Cardinality(InferenceCalls)
    /\ Counted <= stats.totalRequests

\* C27 (as claimed): for the same state of the Inference Endpoint, GET /health
\* and GET /health/detailed report the same overall status; after a 2xx reply
\* to the detailed probe the ML service and the overall status are 'healthy',
\* whatever status field the reply's body has.
C27_SameOverallStatus ==
    resp.route = "detailed" =>
        /\ resp.body.status = HealthResponse(resp.probe).body.status
        /\ resp.probe = "2xx" =>
              resp.body.services.mlService = "healthy" /\ resp.body.status = "healthy"

\* C28 (as claimed): every model forwarded to the Inference Endpoint, by the
\* analyze route or the batch route, is one of the three valid models; a
\* request naming any other model is answered 400 on both routes.
C28_ValidModelsOnly ==
    /\ forwarded # NoForward =>
          forwarded.body.model \in {JStr(model) : model \in ValidModels}
    /\ /\ resp.route \in {"analyze", "batch"}
       /\ resp.req.model # JUndefined
       /\ resp.req.model \notin {JStr(model) : model \in ValidModels}
       => resp.status = 400

\* the attempts of retryWithBackoff that failed so far
FailedAttempts == IF retry.state \in {"calling", "resolved"} THEN retry.calls - 1
                  ELSE retry.calls

\* C29: retryWithBackoff(fn, maxRetries, baseDelay) calls fn at most
\* maxRetries times; it resolves with the value of the first attempt that
\* succeeds and calls fn no more; it waits baseDelay * 2^i after the failed
\* attempt i (counted from 0) only when another attempt follows; when every
\* attempt failed it rejects with the error of the last one.
C29_RetryWithBackoff ==
    /\ retry.calls <= retry.maxRetries
    /\ retry.state = "resolved" =>
          retry.settled = JStr("value") /\ Len(retry.delays) = retry.calls - 1
    /\ retry.state = "calling" => Len(retry.delays) = retry.calls - 1
    /\ retry.state = "waiting" =>
          Len(retry.delays) = retry.calls /\ retry.calls < retry.maxRetries
    /\ retry.state = "rejected" =>
          /\ retry.calls = retry.maxRetries
          /\ retry.settled = retry.lastError
          /\ Len(retry.delays) = IF retry.calls = 0 THEN 0 ELSE retry.calls - 1
    /\ \A k \in 1..Len(retry.delays) : retry.delays[k] = retry.baseDelay * 2^(k - 1)
    /\ retry.state # "idle" => retry.i = Len(retry.delays) - (IF retry.state = "waiting" THEN 1 ELSE 0)

\* three attempts failed: two waits, of 1000 and 2000 ms, and the rejection
\* with the third error
C29_Witness ==
    /\ retry.state = "rejected"
    /\ retry.calls = 3
    /\ retry.delays = <<1000, 2000>>
    /\ retry.settled = JStr("E3")

\* C30: in SentimentAnalyzer, after any sequence of text changes,
\* submissions, clears, example selections and request completions, result
\* and error are never both non-null, both are null while isAnalyzing is
\* true, and isAnalyzing is true only while a request awaits its completion.
C30_ResultXorError ==
    /\ ~(analyzer.result # JNull /\ analyzer.error # JNull)
    /\ analyzer.isAnalyzing => analyzer.result = JNull /\ analyzer.error = JNull
    /\ analyzer.isAnalyzing <=> analyzer.awaiting

\* a completion has set the result of a text that is still in the textarea
C30_Witness ==
    /\ analyzer.result # JNull
    /\ ~analyzer.isAnalyzing
    /\ TruthyText(analyzer.text)

=============================================================================
